---- MODULE Spec2Model ----
(***************************************************************************)
(* A model of the coderlm indexing engine: the Symbol Table with its two   *)
(* secondary indices, the File Tree, the filesystem watcher, the           *)
(* background whole-tree extraction and the LRU project registry.          *)
(*                                                                         *)
(* Every DashMap is a function whose DOMAIN is the set of keys present.    *)
(* One DashMap call (entry().or_insert_with().insert(), remove, get_mut    *)
(* held to the end of its guard, insert, retain) is one atomic step; a     *)
(* handler made of several calls is several steps when it can run beside   *)
(* another thread, and the composition of its steps when handlers run one  *)
(* at a time.                                                              *)
(***************************************************************************)
EXTENDS Integers, Sequences, FiniteSets, TLC

VARIABLES
    st,         \* Project.symbol_table: [symbols, by_name, by_file]
    ft,         \* Project.file_tree.files: rel_path -> FileEntry
    disk,       \* the project directory: rel_path -> Absent or the file's content
    events,     \* debounced filesystem events not yet handled (rel_paths)
    edits,      \* number of filesystem changes made so far
    w,          \* the watcher thread: its position and locals
    e,          \* the background extraction worker: its position and locals
    projects,   \* AppStateInner.projects: canonical root -> Project
    sessions,   \* AppStateInner.sessions: session id -> Session
    max_projects, \* AppStateInner.max_projects
    now,        \* the wall clock: the latest value Utc::now() returned
    ties,       \* how often Utc::now() returned the same value twice running
    nextId,     \* number of Project objects built so far
    res,        \* the last registry call and what it returned
    s1,         \* how far the calls so far follow scenario S1
    orphaned,   \* ids of the sessions that were attached to a project when it was evicted
    calls,      \* calls in progress (get_or_create_project, save_index): position and locals
    blob,       \* the bytes of .coderlm/index.bin, NoFile when there is none
    stats,      \* what the last load_index returned
    saved,      \* the File Tree and the directory as the last save_index saw them
    annotations \* the content of .coderlm/annotations.json, NoFile when there is none

indexVars == <<st, ft, disk, events, edits, w, e>>
regVars   == <<projects, sessions, max_projects, now, ties, nextId, res, s1,
               orphaned, calls>>
cacheVars == <<blob, stats, saved, annotations>>
vars      == <<st, ft, disk, events, edits, w, e,
               projects, sessions, max_projects, now, ties, nextId, res, s1,
               orphaned, calls, blob, stats, saved, annotations>>

(***************************************************************************)
(* Maps                                                                    *)
(***************************************************************************)
EmptyMap == [x \in {} |-> {}]

MapPut(m, k, v) == [x \in (DOMAIN m) \cup {k} |-> IF x = k THEN v ELSE m[x]]

MapDel(m, k) == [x \in (DOMAIN m) \ {k} |-> m[x]]

(***************************************************************************)
(* Inputs                                                                  *)
(***************************************************************************)
Files == {"a.rs", "b.rs", "c.txt"}

Names == {"f", "g", "h"}

\* Language::from_path followed by has_tree_sitter_support.
HasTreeSitterSupport(path) ==
    path \in {"a.rs", "b.rs", "x.rs", "a.py", "b.py", "c.py", ".h.py",
              "target/a.rs", "src/env/b.py", "png.rs", "x.min.js"}

(***************************************************************************)
(* Symbol Table                                                            *)
(***************************************************************************)
\* Option<String>
None == <<>>

Some(x) == <<x>>

\* SymbolTable::make_key: format!("{}::{}", file, name).
MakeKey(file, name) == file \o "::" \o name

Symbol(file, name) == [file |-> file, name |-> name, definition |-> None]

\* SymbolTable::new.
NewTable == [symbols |-> EmptyMap, by_name |-> EmptyMap, by_file |-> EmptyMap]

\* by_name.entry(name).or_insert_with(HashSet::new).insert(key)
InsertByName(t, sym) ==
    LET key == MakeKey(sym.file, sym.name)
        old == IF sym.name \in DOMAIN t.by_name THEN t.by_name[sym.name] ELSE {}
    IN  [t EXCEPT !.by_name = MapPut(t.by_name, sym.name, old \cup {key})]

InsertByFileSkipped(t, sym) == t

\* by_file.entry(file).or_insert_with(HashSet::new).insert(key)
InsertByFile(t, sym) ==
    LET key == MakeKey(sym.file, sym.name)
        old == IF sym.file \in DOMAIN t.by_file THEN t.by_file[sym.file] ELSE {}
    IN  [t EXCEPT !.by_file = MapPut(t.by_file, sym.file, old \cup {key})]

\* symbols.insert(key, symbol)
InsertPrimary(t, sym) ==
    [t EXCEPT !.symbols = MapPut(t.symbols, MakeKey(sym.file, sym.name), sym)]

\* SymbolTable::insert run without interruption.
Insert(t, sym) == InsertPrimary(InsertByFile(InsertByName(t, sym), sym), sym)

\* by_file.remove(file): the table afterwards.
TakeByFile(t, file) == [t EXCEPT !.by_file = MapDel(t.by_file, file)]

\* symbols.remove(key): the table afterwards.
RemovePrimary(t, key) == [t EXCEPT !.symbols = MapDel(t.symbols, key)]

\* A remove_file that leaves the by_name set of the removed record untouched.
PruneNameSkipped(t, name, key) == t

\* by_name.get_mut(name) { name_set.remove(key) }, under one shard guard.
PruneName(t, name, key) ==
    IF name \in DOMAIN t.by_name
    THEN [t EXCEPT !.by_name = MapPut(t.by_name, name, t.by_name[name] \ {key})]
    ELSE t

\* by_name.remove(name), issued after the guard saw the set empty.
DropName(t, name) == [t EXCEPT !.by_name = MapDel(t.by_name, name)]

\* The body of remove_file's loop for one key, run without interruption.
RemoveKey(t, key) ==
    IF key \in DOMAIN t.symbols
    THEN LET name == t.symbols[key].name
             t1   == RemovePrimary(t, key)
             t2   == PruneName(t1, name, key)
         IN  IF name \in DOMAIN t1.by_name /\ t2.by_name[name] = {}
             THEN DropName(t2, name)
             ELSE t2
    ELSE t

RECURSIVE RemoveKeys(_, _)
RemoveKeys(t, keys) ==
    IF keys = {} THEN t
    ELSE LET key == CHOOSE k \in keys : TRUE
         IN  RemoveKeys(RemoveKey(t, key), keys \ {key})

RemoveFileNothing(t, file) == t

\* SymbolTable::remove_file run without interruption.
RemoveFile(t, file) ==
    IF file \in DOMAIN t.by_file
    THEN RemoveKeys(TakeByFile(t, file), t.by_file[file])
    ELSE t

(***************************************************************************)
(* Invariants of the data model                                            *)
(***************************************************************************)
\* I1: every primary record is in by_name[its name] and by_file[its file].
I1(t) ==
    \A key \in DOMAIN t.symbols :
        LET sym == t.symbols[key]
        IN  /\ sym.name \in DOMAIN t.by_name /\ key \in t.by_name[sym.name]
            /\ sym.file \in DOMAIN t.by_file /\ key \in t.by_file[sym.file]

\* I2: every key held by a secondary index is a key of the primary store.
I2(t) ==
    /\ \A name \in DOMAIN t.by_name : t.by_name[name] \subseteq DOMAIN t.symbols
    /\ \A file \in DOMAIN t.by_file : t.by_file[file] \subseteq DOMAIN t.symbols

\* I5: no symbol of a file that is absent from the File Tree is reachable
\* through the primary store, by_name or by_file.
I5(t, tree) ==
    /\ \A key \in DOMAIN t.symbols : t.symbols[key].file \in DOMAIN tree
    /\ \A file \in DOMAIN t.by_file : t.by_file[file] # {} => file \in DOMAIN tree
    /\ \A name \in DOMAIN t.by_name :
           \A key \in t.by_name[name] :
               \A file \in Files : key = MakeKey(file, name) => file \in DOMAIN tree

(***************************************************************************)
(* Initial values of the parts a specification leaves alone                *)
(***************************************************************************)
\* A path's state on disk: no such file, or a file declaring these symbols.
Absent == [exists |-> FALSE, names |-> {}]

OnDisk(names) == [exists |-> TRUE, names |-> names]

NoSym == [file |-> "", name |-> ""]

\* A thread's position and the locals of the handler it is in.
Thread(pc) ==
    [pc |-> pc, kind |-> "", path |-> "", todo |-> {}, sym |-> NoSym,
     keys |-> {}, paths |-> {}]

Idle == Thread("idle")

\* No registry call has been made yet.
NoCall == [op |-> "none", arg |-> "", kind |-> "none", id |-> 0]

IndexRest ==
    /\ ft = EmptyMap
    /\ disk = [p \in Files |-> Absent]
    /\ events = {}
    /\ edits = 0
    /\ w = Idle
    /\ e = Idle

RegistryRest ==
    /\ projects = EmptyMap
    /\ sessions = EmptyMap
    /\ max_projects = 0
    /\ now = 0
    /\ ties = 0
    /\ nextId = 0
    /\ res = NoCall
    /\ s1 = [on |-> FALSE, n |-> 0]
    /\ orphaned = {}
    /\ calls = EmptyMap

\* No cache file, no load_index call, no save_index call yet.
NoFile == [exists |-> FALSE, bytes |-> <<>>]

NoStats == [kind |-> "none"]

NoSave == [on |-> FALSE, n |-> 0]

CacheRest ==
    /\ blob = NoFile
    /\ stats = NoStats
    /\ saved = NoSave
    /\ annotations = NoFile

(***************************************************************************)
(* SpecTable: insert and remove_file called one at a time                  *)
(***************************************************************************)
TableInit == st = NewTable /\ IndexRest /\ RegistryRest /\ CacheRest

TableInsert ==
    \E file \in Files, name \in Names :
        /\ st' = Insert(st, Symbol(file, name))
        /\ res' = [NoCall EXCEPT !.op = "insert", !.arg = MakeKey(file, name)]
        /\ UNCHANGED <<ft, disk, events, edits, w, e>>
        /\ UNCHANGED <<projects, sessions, max_projects, now, ties, nextId, s1, orphaned, calls>>
        /\ UNCHANGED cacheVars

TableRemoveFile ==
    \E file \in Files :
        /\ st' = RemoveFile(st, file)
        /\ res' = [NoCall EXCEPT !.op = "remove_file", !.arg = file]
        /\ UNCHANGED <<ft, disk, events, edits, w, e>>
        /\ UNCHANGED <<projects, sessions, max_projects, now, ties, nextId, s1, orphaned, calls>>
        /\ UNCHANGED cacheVars

TableNext == TableInsert \/ TableRemoveFile

SpecTable == TableInit /\ [][TableNext]_vars

(***************************************************************************)
(* SpecKeys: insert and remove_file called one at a time with paths and    *)
(* names that contain the separator of the primary key                     *)
(***************************************************************************)
\* ("a.rs", "m::f") and ("a.rs::m", "f") are distinct pairs.
KeyFiles == {"a.rs", "a.rs::m"}

KeyNames == {"f", "g", "m::f"}

KeyInsert ==
    \E file \in KeyFiles, name \in KeyNames :
        /\ st' = Insert(st, Symbol(file, name))
        /\ res' = [NoCall EXCEPT !.op = "insert", !.arg = <<file, name>>]
        /\ UNCHANGED <<ft, disk, events, edits, w, e>>
        /\ UNCHANGED <<projects, sessions, max_projects, now, ties, nextId, s1, orphaned, calls>>
        /\ UNCHANGED cacheVars

KeyRemoveFile ==
    \E file \in KeyFiles :
        /\ st' = RemoveFile(st, file)
        /\ res' = [NoCall EXCEPT !.op = "remove_file", !.arg = <<file>>]
        /\ UNCHANGED <<ft, disk, events, edits, w, e>>
        /\ UNCHANGED <<projects, sessions, max_projects, now, ties, nextId, s1, orphaned, calls>>
        /\ UNCHANGED cacheVars

KeysNext == KeyInsert \/ KeyRemoveFile

SpecKeys == TableInit /\ [][KeysNext]_vars

NewFileEntry(path) == [symbols_extracted |-> FALSE]

\* walker::scan_directory: one record per regular file found.
ScanDirectory(d) == [p \in {q \in Files : d[q].exists} |-> NewFileEntry(p)]

\* extract_symbols_from_file on a readable file: one Symbol per declaration.
ExtractSymbols(path, content) == {Symbol(path, n) : n \in content.names}

\* An extraction that never sets the flag.
MarkExtractedNever(tree, path) == tree

\* file_tree.files.get_mut(path) { entry.symbols_extracted = true }
MarkExtracted(tree, path) ==
    IF path \in DOMAIN tree
    THEN MapPut(tree, path, [tree[path] EXCEPT !.symbols_extracted = TRUE])
    ELSE tree

\* Where a thread goes after one symbol is in: the next symbol, or the flag.
AfterInsert(todo) == IF todo = {} THEN "flag" ELSE "ins_name"

(***************************************************************************)
(* The filesystem: edits by the user, each followed by a debounced event   *)
(***************************************************************************)
MaxEdits == 2

\* The contents a file of the model can take.
Contents(path) ==
    IF path = "a.rs" THEN {OnDisk({"f"}), OnDisk({"g"})}
    ELSE IF path = "b.rs" THEN {OnDisk({"f"})}
    ELSE {OnDisk({})}

FsEdit ==
    \E path \in Files : \E c \in Contents(path) \cup {Absent} :
        /\ edits < MaxEdits
        /\ c # disk[path]
        /\ disk' = [disk EXCEPT ![path] = c]
        /\ events' = events \cup {path}
        /\ edits' = edits + 1
        /\ UNCHANGED <<st, ft, w, e>>
        /\ UNCHANGED <<regVars, cacheVars>>

(***************************************************************************)
(* SymbolTable::insert and remove_file, one map call per step              *)
(***************************************************************************)
\* insert, first call: by_name.
StepInsName(th, thNew) ==
    /\ th.pc = "ins_name"
    /\ \E sym \in th.todo :
        /\ st' = InsertByName(st, sym)
        /\ thNew = [th EXCEPT !.pc = "ins_file", !.sym = sym, !.todo = @ \ {sym}]

\* insert, second call: by_file.
StepInsFile(th, thNew) ==
    /\ th.pc = "ins_file"
    /\ st' = InsertByFile(st, th.sym)
    /\ thNew = [th EXCEPT !.pc = "ins_primary"]

\* insert, third call: the primary store.
StepInsPrimary(th, thNew) ==
    /\ th.pc = "ins_primary"
    /\ st' = InsertPrimary(st, th.sym)
    /\ thNew = [th EXCEPT !.pc = AfterInsert(th.todo), !.sym = NoSym]

\* Where the watcher goes when remove_file returns.
AfterRemove(th) ==
    IF th.kind = "change" /\ HasTreeSitterSupport(th.path) THEN "read" ELSE "idle"

Finish(th, pc) == IF pc = "idle" THEN Idle ELSE [th EXCEPT !.pc = pc]

\* remove_file, first call: by_file.remove(file).
StepRmTake(th, thNew) ==
    /\ th.pc = "rm_take"
    /\ st' = TakeByFile(st, th.path)
    /\ LET keys == IF th.path \in DOMAIN st.by_file THEN st.by_file[th.path] ELSE {}
       IN  thNew = IF keys = {} THEN Finish(th, AfterRemove(th))
                   ELSE [th EXCEPT !.pc = "rm_key", !.keys = keys]

\* remove_file, per key: symbols.remove(key).
StepRmKey(th, thNew) ==
    /\ th.pc = "rm_key"
    /\ \E key \in th.keys :
        LET rest == th.keys \ {key} IN
        /\ st' = RemovePrimary(st, key)
        /\ thNew =
            IF key \in DOMAIN st.symbols
            THEN [th EXCEPT !.pc = "rm_prune", !.keys = rest,
                            !.sym = Symbol(st.symbols[key].file, st.symbols[key].name)]
            ELSE IF rest = {} THEN Finish(th, AfterRemove(th))
            ELSE [th EXCEPT !.keys = rest]

\* remove_file, per removed symbol: by_name.get_mut(name), remove the key,
\* and see whether the set is now empty.
StepRmPrune(th, thNew) ==
    /\ th.pc = "rm_prune"
    /\ LET key  == MakeKey(th.sym.file, th.sym.name)
           name == th.sym.name
           t2   == PruneName(st, name, key)
       IN  /\ st' = t2
           /\ thNew =
               IF name \in DOMAIN st.by_name /\ t2.by_name[name] = {}
               THEN [th EXCEPT !.pc = "rm_drop"]
               ELSE IF th.keys = {} THEN Finish(th, AfterRemove(th))
               ELSE [th EXCEPT !.pc = "rm_key", !.sym = NoSym]

\* remove_file, after the guard is dropped: by_name.remove(name).
StepRmDrop(th, thNew) ==
    /\ th.pc = "rm_drop"
    /\ st' = DropName(st, th.sym.name)
    /\ thNew = IF th.keys = {} THEN Finish(th, AfterRemove(th))
               ELSE [th EXCEPT !.pc = "rm_key", !.sym = NoSym]

(***************************************************************************)
(* The watcher thread: handle_events                                       *)
(***************************************************************************)
\* handle_events takes the next event and looks at the path: a file goes to
\* handle_file_change, a missing path to handle_file_delete.
WatcherTake ==
    /\ w.pc = "idle"
    /\ \E path \in events :
        /\ events' = events \ {path}
        /\ w' = [Idle EXCEPT !.path = path,
                             !.kind = IF disk[path].exists THEN "change" ELSE "delete",
                             !.pc = IF disk[path].exists THEN "ft_insert" ELSE "ft_remove"]
    /\ UNCHANGED <<st, ft, disk, edits, e>>
    /\ UNCHANGED <<regVars, cacheVars>>

\* handle_file_change: file_tree.insert(FileEntry::new(..)).
WatcherTreeInsert ==
    /\ w.pc = "ft_insert"
    /\ ft' = MapPut(ft, w.path, NewFileEntry(w.path))
    /\ w' = [w EXCEPT !.pc = "rm_take"]
    /\ UNCHANGED <<st, disk, events, edits, e>>
    /\ UNCHANGED <<regVars, cacheVars>>

\* handle_file_delete: file_tree.remove(rel_path).is_some().
WatcherTreeRemove ==
    /\ w.pc = "ft_remove"
    /\ ft' = MapDel(ft, w.path)
    /\ w' = IF w.path \in DOMAIN ft THEN [w EXCEPT !.pc = "rm_take"] ELSE Idle
    /\ UNCHANGED <<st, disk, events, edits, e>>
    /\ UNCHANGED <<regVars, cacheVars>>

WatcherRemoveFile ==
    /\ \/ StepRmTake(w, w')
       \/ StepRmKey(w, w')
       \/ StepRmPrune(w, w')
       \/ StepRmDrop(w, w')
    /\ UNCHANGED <<ft, disk, events, edits, e>>
    /\ UNCHANGED <<regVars, cacheVars>>

\* handle_file_change: extract_symbols_from_file reads the file as it is now;
\* a file that has gone is an Err, which is logged and ends the handler.
WatcherRead ==
    /\ w.pc = "read"
    /\ w' = IF disk[w.path].exists
            THEN LET todo == ExtractSymbols(w.path, disk[w.path])
                 IN  [w EXCEPT !.pc = AfterInsert(todo), !.todo = todo]
            ELSE Idle
    /\ UNCHANGED <<st, ft, disk, events, edits, e>>
    /\ UNCHANGED <<regVars, cacheVars>>

WatcherInsert ==
    /\ \/ StepInsName(w, w')
       \/ StepInsFile(w, w')
       \/ StepInsPrimary(w, w')
    /\ UNCHANGED <<ft, disk, events, edits, e>>
    /\ UNCHANGED <<regVars, cacheVars>>

\* handle_file_change: symbols_extracted = true on the record, if still there.
WatcherFlag ==
    /\ w.pc = "flag"
    /\ ft' = MarkExtracted(ft, w.path)
    /\ w' = Idle
    /\ UNCHANGED <<st, disk, events, edits, e>>
    /\ UNCHANGED <<regVars, cacheVars>>

WatcherNext ==
    \/ WatcherTake
    \/ WatcherTreeInsert
    \/ WatcherTreeRemove
    \/ WatcherRemoveFile
    \/ WatcherRead
    \/ WatcherInsert
    \/ WatcherFlag

(***************************************************************************)
(* The background worker: extract_all_symbols                              *)
(***************************************************************************)
Done == Thread("done")

\* Where the worker goes after a file: the next listed path, or the end.
NextPath(th) == IF th.paths = {} THEN Done ELSE [Idle EXCEPT !.pc = "pick", !.paths = th.paths]

\* The paths of the File Tree whose language has a profile, collected once.
ExtractList ==
    /\ e.pc = "list"
    /\ e' = NextPath([e EXCEPT !.paths = {p \in DOMAIN ft : HasTreeSitterSupport(p)}])
    /\ UNCHANGED <<st, ft, disk, events, edits, w>>
    /\ UNCHANGED <<regVars, cacheVars>>

\* extract_symbols_from_file for the next listed path; an Err skips the file.
ExtractRead ==
    /\ e.pc = "pick"
    /\ \E path \in e.paths :
        LET rest == [e EXCEPT !.paths = @ \ {path}] IN
        e' = IF disk[path].exists
             THEN LET todo == ExtractSymbols(path, disk[path])
                  IN  [rest EXCEPT !.pc = AfterInsert(todo), !.todo = todo, !.path = path]
             ELSE NextPath(rest)
    /\ UNCHANGED <<st, ft, disk, events, edits, w>>
    /\ UNCHANGED <<regVars, cacheVars>>

ExtractInsert ==
    /\ \/ StepInsName(e, e')
       \/ StepInsFile(e, e')
       \/ StepInsPrimary(e, e')
    /\ UNCHANGED <<ft, disk, events, edits, w>>
    /\ UNCHANGED <<regVars, cacheVars>>

\* symbols_extracted = true on the record, if it is still in the tree.
ExtractFlag ==
    /\ e.pc = "flag"
    /\ ft' = MarkExtracted(ft, e.path)
    /\ e' = NextPath(e)
    /\ UNCHANGED <<st, disk, events, edits, w>>
    /\ UNCHANGED <<regVars, cacheVars>>

ExtractNext == ExtractList \/ ExtractRead \/ ExtractInsert \/ ExtractFlag

(***************************************************************************)
(* SpecIndex: a project just installed by get_or_create_project: scanned,  *)
(* its watcher running, whole-tree extraction spawned                      *)
(***************************************************************************)
InitialDisks ==
    {d \in [Files -> {Absent, OnDisk({}), OnDisk({"f"})}] :
        /\ d["a.rs"] = OnDisk({"f"})
        /\ d["b.rs"] \in Contents("b.rs") \cup {Absent}
        /\ d["c.txt"] \in Contents("c.txt") \cup {Absent}}

IndexInit ==
    /\ disk \in InitialDisks
    /\ ft = ScanDirectory(disk)
    /\ st = NewTable
    /\ events = {}
    /\ edits = 0
    /\ w = Idle
    /\ e = Thread("list")
    /\ RegistryRest
    /\ CacheRest

IndexNext == FsEdit \/ WatcherNext \/ ExtractNext

SpecIndex == IndexInit /\ [][IndexNext]_vars

(***************************************************************************)
(* SpecExtract: a project just installed, its whole-tree extraction        *)
(* spawned, and no filesystem event until the extraction is over; a file   *)
(* may have gone since the scan, and then its extraction fails. The        *)
(* runtime keeps running the spawned task, so the worker's steps are       *)
(* weakly fair.                                                            *)
(***************************************************************************)
ExtractContents(path) ==
    IF path = "c.txt" THEN {OnDisk({})}
    ELSE {OnDisk(names) : names \in SUBSET {"f", "g"}}

ExtractInit ==
    /\ \E scanned \in SUBSET Files :
          /\ ft = [p \in scanned |-> NewFileEntry(p)]
          /\ disk \in [Files -> {Absent} \cup UNION {ExtractContents(p) : p \in Files}]
          /\ \A p \in Files :
                disk[p] \in (IF p \in scanned THEN ExtractContents(p) \cup {Absent} ELSE {Absent})
    /\ st = NewTable
    /\ events = {}
    /\ edits = 0
    /\ w = Idle
    /\ e = Thread("list")
    /\ RegistryRest
    /\ CacheRest

SpecExtract == ExtractInit /\ [][ExtractNext]_vars /\ WF_vars(ExtractNext)

\* Nothing is running and nothing is left to handle.
Quiescent == w.pc = "idle" /\ e.pc = "done" /\ events = {}

\* C2: once every insert and remove_file issued by the watcher thread and
\* by the extraction worker has returned, the table satisfies I1 and I2,
\* whatever the interleaving of their map calls was.
C2_ConcurrentInsertKeepsIndices == Quiescent => I1(st) /\ I2(st)

\* C4: once all activity has finished, no symbol of a path that has been
\* removed from the File Tree is reachable through symbols, by_name or
\* by_file, whatever the interleaving of the watcher's delete with the
\* extraction that listed the path.
C4_NoSymbolOfRemovedFile == Quiescent => I5(st, ft)

(***************************************************************************)
(* SpecWatcher: whole-tree extraction has finished and the watcher is the  *)
(* only writer of the File Tree and the Symbol Table; API readers look at  *)
(* the maps between any two steps                                          *)
(***************************************************************************)
RECURSIVE InsertAll(_, _)
InsertAll(t, syms) ==
    IF syms = {} THEN t
    ELSE LET sym == CHOOSE x \in syms : TRUE
         IN  InsertAll(Insert(t, sym), syms \ {sym})

\* The File Tree and Symbol Table extract_all_symbols leaves when nothing
\* else runs beside it.
ExtractedTree(d) ==
    [p \in DOMAIN ScanDirectory(d) |->
        [ScanDirectory(d)[p] EXCEPT !.symbols_extracted = HasTreeSitterSupport(p)]]

ExtractedTable(d) ==
    InsertAll(NewTable,
              UNION {ExtractSymbols(p, d[p]) :
                        p \in {q \in DOMAIN ScanDirectory(d) : HasTreeSitterSupport(q)}})

WatcherInit ==
    /\ disk \in InitialDisks
    /\ ft = ExtractedTree(disk)
    /\ st = ExtractedTable(disk)
    /\ events = {}
    /\ edits = 0
    /\ w = Idle
    /\ e = Done
    /\ RegistryRest
    /\ CacheRest

WatcherOnlyNext == FsEdit \/ WatcherNext

SpecWatcher == WatcherInit /\ [][WatcherOnlyNext]_vars

\* Every primary record is in by_name[its name]: the by_name half of I1.
PrimaryInByName(t) ==
    \A key \in DOMAIN t.symbols :
        /\ t.symbols[key].name \in DOMAIN t.by_name
        /\ key \in t.by_name[t.symbols[key].name]

\* C3 as stated: at every moment, also between two map calls of the watcher,
\* a reader of the File Tree and the Symbol Table sees I1, I2 and I5 hold.
C3_ReaderAlwaysSeesInvariants == I1(st) /\ I2(st) /\ I5(st, ft)

\* C3 as amended: with the watcher the only writer, a reader sees at every
\* moment each primary record in by_name[its name], and sees I1, I2 and I5
\* hold whenever the watcher is between two events; part-way through an
\* event it may see them broken.
C3_ReaderSeesInvariantsBetweenEvents ==
    /\ PrimaryInByName(st)
    /\ w.pc = "idle" => I1(st) /\ I2(st) /\ I5(st, ft)

\* The watcher is part-way through remove_file for a changed file: by_file
\* no longer has the path while its symbol is still in the primary store.
C3_Witness ==
    /\ w.pc = "rm_key"
    /\ w.kind = "change"
    /\ w.path \notin DOMAIN st.by_file
    /\ \E key \in w.keys : key \in DOMAIN st.symbols

(***************************************************************************)
(* Project registry (AppState)                                             *)
(***************************************************************************)
MaxClock == 4
MaxTies == 1
MaxBuilt == 3

\* The values of --max-projects the model runs with.
Capacities == {0, 1, 2}

\* Canonical project roots, and the paths a request can name: "A/." is
\* another spelling of A, "missing" does not exist, "file.txt" is a file.
Roots == {"A", "B", "C"}

Cwds == Roots \cup {"A/.", "missing", "file.txt"}

\* cwd.canonicalize(): the canonical path, when the path is accessible.
Accessible(cwd) == cwd # "missing"

Canonicalize(cwd) == IF cwd = "A/." THEN "A" ELSE cwd

\* canonical.is_dir()
IsDir(canonical) == canonical \in Roots

\* The result of a call: the error kind, or ok with the Project returned.
Err(kind) == [kind |-> kind, id |-> 0]

Ok(id) == [kind |-> "ok", id |-> id]

\* Project { .. last_active: Mutex::new(Utc::now()) }, a new bundle of File
\* Tree, Symbol Table and watcher, told apart by the order of construction.
NewProject(id, t) == [id |-> id, last_active |-> t]

\* Session::new(id, project.root)
NewSession(root) == [project_path |-> root]

\* *project.last_active.lock() = Utc::now(), when the project is registered.
Touch(projs, path, t) ==
    IF path \in DOMAIN projs THEN [projs EXCEPT ![path].last_active = t] ELSE projs

LruVictimsNewest(projs) ==
    {r \in DOMAIN projs :
        \A q \in DOMAIN projs : projs[r].last_active >= projs[q].last_active}

\* evict_lru: projects.iter().min_by_key(last_active): the roots it can
\* return (equal timestamps leave the choice to the map's iteration order).
LruVictims(projs) ==
    {r \in DOMAIN projs :
        \A q \in DOMAIN projs : projs[r].last_active <= projs[q].last_active}

RetainNone(sess, path) == EmptyMap

\* An eviction that leaves the sessions of the evicted project in place.
RetainAll(sess, path) == sess

\* evict_lru: sessions.retain(|_, session| session.project_path != path)
RetainSessions(sess, path) ==
    [sid \in {x \in DOMAIN sess : sess[x].project_path # path} |-> sess[sid]]

TouchEvicting(reg, canonical, t) ==
    LET victim == CHOOSE r \in DOMAIN reg.projects : r # canonical \/ DOMAIN reg.projects = {r}
    IN  [reg EXCEPT !.projects = Touch(MapDel(reg.projects, victim), canonical, t),
                    !.res = Ok(reg.projects[canonical].id)]

\* get_or_create_project, the path found in the registry (state.rs 65-68).
TouchExisting(reg, canonical, t) ==
    [reg EXCEPT !.projects = Touch(reg.projects, canonical, t),
                !.res = Ok(reg.projects[canonical].id)]

\* evict_lru with `victim` the root min_by_key returned.
EvictLru(reg, victim) ==
    [reg EXCEPT !.projects = MapDel(reg.projects, victim),
                !.sessions = RetainSessions(reg.sessions, victim),
                !.evicted = {victim}]

\* get_or_create_project from the scan on (state.rs 75-117).
Install(reg, canonical, t) ==
    [reg EXCEPT !.projects = MapPut(reg.projects, canonical, NewProject(reg.nextId + 1, t)),
                !.nextId = reg.nextId + 1,
                !.res = Ok(reg.nextId + 1)]

AtCapacityNever(projs, cap) == FALSE

\* self.inner.projects.len() >= self.inner.max_projects
AtCapacity(projs, cap) == Cardinality(DOMAIN projs) >= cap

\* A get_or_create_project that makes room before it looks at the path.
GetOrCreateProjectEvictingFirst(reg, cwd, t, victim) ==
    IF ~Accessible(cwd) \/ ~IsDir(Canonicalize(cwd))
    THEN IF AtCapacity(reg.projects, max_projects) /\ DOMAIN reg.projects # {}
         THEN [EvictLru(reg, victim) EXCEPT !.res = Err("BadRequest")]
         ELSE [reg EXCEPT !.res = Err("BadRequest")]
    ELSE IF Canonicalize(cwd) \in DOMAIN reg.projects
    THEN TouchExisting(reg, Canonicalize(cwd), t)
    ELSE IF AtCapacity(reg.projects, max_projects)
    THEN IF DOMAIN reg.projects = {}
         THEN [reg EXCEPT !.res = Err("Internal")]
         ELSE Install(EvictLru(reg, victim), Canonicalize(cwd), t)
    ELSE Install(reg, Canonicalize(cwd), t)

\* get_or_create_project run without interruption, with `t` the value of
\* Utc::now() and `victim` the root evict_lru picks if it is called.
GetOrCreateProject(reg, cwd, t, victim) ==
    IF ~Accessible(cwd) \/ ~IsDir(Canonicalize(cwd))
    THEN [reg EXCEPT !.res = Err("BadRequest")]
    ELSE IF Canonicalize(cwd) \in DOMAIN reg.projects
    THEN TouchExisting(reg, Canonicalize(cwd), t)
    ELSE IF AtCapacity(reg.projects, max_projects)
    THEN IF DOMAIN reg.projects = {}
         THEN [reg EXCEPT !.res = Err("Internal")]
         ELSE Install(EvictLru(reg, victim), Canonicalize(cwd), t)
    ELSE Install(reg, Canonicalize(cwd), t)

\* get_project_for_session
ProjectForSession(sid) ==
    IF sid \notin DOMAIN sessions THEN Err("NotFound")
    ELSE IF sessions[sid].project_path \notin DOMAIN projects THEN Err("Gone")
    ELSE Ok(projects[sessions[sid].project_path].id)

\* The registry as one value, for the operators above.
Registry ==
    [projects |-> projects, sessions |-> sessions, nextId |-> nextId,
     res |-> Err("none"), evicted |-> {}]

\* The roots evict_lru can pick now ("" when the registry is empty).
Victims == IF DOMAIN projects = {} THEN {""} ELSE LruVictims(projects)

\* The values Utc::now() can return: later than the last one or, once in a
\* while, the same again.
Clock == {t \in {now + 1} : t <= MaxClock} \cup {t \in {now} : ties < MaxTies}

Tied(t) == IF t = now THEN ties + 1 ELSE ties

\* Scenario S1: create A, create B, touch A, create C, each later than the
\* one before.
S1Calls == << <<"create", "A">>, <<"create", "B">>, <<"touch", "A">>, <<"create", "C">> >>

S1Follow(what, arg, t) ==
    IF /\ s1.on
       /\ s1.n < Len(S1Calls)
       /\ S1Calls[s1.n + 1] = <<what, arg>>
       /\ (s1.n = 0 \/ t > now)
    THEN [on |-> TRUE, n |-> s1.n + 1]
    ELSE [on |-> FALSE, n |-> 0]

\* The session ids of the model.
SessionIds == {"s1", "s2"}

\* uuid::Uuid::new_v4(): an id that no session carries or carried when its
\* project was evicted.
FreshIds == SessionIds \ (DOMAIN sessions \cup orphaned)

\* The sessions attached to an evicted root at the time of the eviction.
Orphans(evicted) == {sid \in DOMAIN sessions : sessions[sid].project_path \in evicted}

Call(op, arg, result) == [op |-> op, arg |-> arg, kind |-> result.kind, id |-> result.id]

(***************************************************************************)
(* SpecRegistry: registry calls made one at a time                         *)
(***************************************************************************)
RegistryInit ==
    /\ max_projects \in Capacities
    /\ projects = EmptyMap
    /\ sessions = EmptyMap
    /\ now = 0
    /\ ties = 0
    /\ nextId = 0
    /\ res = NoCall
    /\ s1 = [on |-> TRUE, n |-> 0]
    /\ orphaned = {}
    /\ calls = EmptyMap
    /\ st = NewTable
    /\ IndexRest
    /\ CacheRest

\* AppState::get_or_create_project(cwd)
GetOrCreate ==
    \E cwd \in Cwds, t \in Clock, victim \in Victims :
        LET out == GetOrCreateProject(Registry, cwd, t, victim) IN
        /\ out.nextId <= MaxBuilt
        /\ projects' = out.projects
        /\ sessions' = out.sessions
        /\ nextId' = out.nextId
        /\ now' = t
        /\ ties' = Tied(t)
        /\ res' = Call("get_or_create", cwd, out.res)
        /\ s1' = S1Follow("create", cwd, t)
        /\ orphaned' = orphaned \cup Orphans(out.evicted)
        /\ UNCHANGED <<max_projects, calls>>
        /\ UNCHANGED <<indexVars, cacheVars>>

\* routes::create_session: get_or_create_project, then sessions.insert.
CreateSession ==
    \E cwd \in Cwds, t \in Clock, victim \in Victims :
        LET out == GetOrCreateProject(Registry, cwd, t, victim) IN
        /\ out.nextId <= MaxBuilt
        /\ out.res.kind = "ok" => FreshIds # {}
        /\ projects' = out.projects
        /\ nextId' = out.nextId
        /\ now' = t
        /\ ties' = Tied(t)
        /\ sessions' = IF out.res.kind = "ok"
                       THEN MapPut(out.sessions, CHOOSE sid \in FreshIds : TRUE,
                                   NewSession(Canonicalize(cwd)))
                       ELSE out.sessions
        /\ res' = Call("create_session", cwd, out.res)
        /\ s1' = S1Follow("create", cwd, t)
        /\ orphaned' = orphaned \cup Orphans(out.evicted)
        /\ UNCHANGED <<max_projects, calls>>
        /\ UNCHANGED <<indexVars, cacheVars>>

\* AppState::touch_project(project_path)
TouchProject ==
    \E path \in Roots, t \in Clock :
        /\ projects' = Touch(projects, path, t)
        /\ now' = t
        /\ ties' = Tied(t)
        /\ res' = Call("touch", path, Ok(0))
        /\ s1' = S1Follow("touch", path, t)
        /\ UNCHANGED <<sessions, max_projects, nextId, orphaned, calls>>
        /\ UNCHANGED <<indexVars, cacheVars>>

\* AppState::get_project_for_session(session_id)
GetProjectForSession ==
    \E sid \in SessionIds :
        /\ res' = Call("get_project_for_session", sid, ProjectForSession(sid))
        /\ s1' = [on |-> FALSE, n |-> 0]
        /\ UNCHANGED <<projects, sessions, max_projects, now, ties, nextId, orphaned, calls>>
        /\ UNCHANGED <<indexVars, cacheVars>>

\* routes::delete_session: sessions.remove(id)
DeleteSession ==
    \E sid \in SessionIds :
        /\ sessions' = MapDel(sessions, sid)
        /\ res' = Call("delete_session", sid,
                       IF sid \in DOMAIN sessions THEN Ok(0) ELSE Err("NotFound"))
        /\ s1' = [on |-> FALSE, n |-> 0]
        /\ UNCHANGED <<projects, max_projects, now, ties, nextId, orphaned, calls>>
        /\ UNCHANGED <<indexVars, cacheVars>>

RegistryNext ==
    \/ GetOrCreate
    \/ CreateSession
    \/ TouchProject
    \/ GetProjectForSession
    \/ DeleteSession

SpecRegistry == RegistryInit /\ [][RegistryNext]_vars

\* The step is a call of get_or_create_project(cwd), made directly or by
\* create_session.
IsGetOrCreate(cwd) ==
    /\ res'.op \in {"get_or_create", "create_session"}
    /\ res'.arg = cwd

\* The call names a directory that is not registered while the registry
\* holds max_projects projects.
NewAtCapacity(cwd) ==
    /\ Accessible(cwd)
    /\ IsDir(Canonicalize(cwd))
    /\ Canonicalize(cwd) \notin DOMAIN projects
    /\ Cardinality(DOMAIN projects) = max_projects

\* The step evicts exactly `victim`, installs the new root and keeps the rest.
EvictsOnly(victim, cwd) ==
    /\ victim \in DOMAIN projects
    /\ \A q \in DOMAIN projects : projects[victim].last_active <= projects[q].last_active
    /\ DOMAIN projects' = (DOMAIN projects \ {victim}) \cup {Canonicalize(cwd)}
    /\ \A r \in DOMAIN projects \ {victim} : projects'[r] = projects[r]

\* Scenario S1 has just been run with capacity 2.
S1Done == s1.on /\ s1.n = Len(S1Calls) /\ max_projects = 2

\* C5 as stated: a get_or_create_project call for an unregistered path, made
\* while the registry holds max_projects projects, evicts exactly one
\* project, one of minimal last_active, and keeps every other; after S1
\* with capacity 2 the registry holds A and C.
C5_EvictsLeastRecentlyActiveAnyCapacity ==
    /\ [][\A cwd \in Cwds :
            IsGetOrCreate(cwd) /\ NewAtCapacity(cwd)
                => \E victim \in Roots : EvictsOnly(victim, cwd)]_vars
    /\ [](S1Done => DOMAIN projects = {"A", "C"})

\* C5 as amended: the same, for max_projects >= 1 (with max_projects = 0 the
\* call fails with Internal and evicts nothing).
C5_EvictsLeastRecentlyActive ==
    /\ [][\A cwd \in Cwds :
            IsGetOrCreate(cwd) /\ NewAtCapacity(cwd) /\ max_projects >= 1
                => \E victim \in Roots : EvictsOnly(victim, cwd)]_vars
    /\ [](S1Done => DOMAIN projects = {"A", "C"})

\* S1 has run: B, the least recently active of A and B, has gone.
C5_Witness ==
    /\ S1Done
    /\ "B" \notin DOMAIN projects
    /\ projects["A"].last_active < projects["C"].last_active
    /\ nextId = Len(S1Calls) - 1

\* C6: get_project_for_session with the id of a session that was attached to
\* a project when LRU evicted it fails with Gone.
C6_OrphanedSessionIsGone ==
    res.op = "get_project_for_session" /\ res.arg \in orphaned => res.kind = "Gone"

\* C7: with max_projects >= 1 and calls made one at a time, the registry
\* never holds more than max_projects projects.
C7_RegistryWithinCapacity ==
    max_projects >= 1 => Cardinality(DOMAIN projects) <= max_projects

\* More projects have been built than the registry can hold, and it is full.
C7_Witness ==
    /\ max_projects >= 1
    /\ nextId > max_projects
    /\ Cardinality(DOMAIN projects) = max_projects

\* C9: a step that evicts root v removes exactly the sessions whose
\* project_path is v and leaves every other session and every other
\* project entry as it was.
C9_EvictionRemovesItsSessionsOnly ==
    [][\A v \in Roots :
        v \in DOMAIN projects /\ v \notin DOMAIN projects'
            => /\ \A sid \in DOMAIN sessions' : sessions'[sid].project_path # v
               /\ \A sid \in DOMAIN sessions :
                    sessions[sid].project_path # v
                        => sid \in DOMAIN sessions' /\ sessions'[sid] = sessions[sid]
               /\ \A r \in DOMAIN projects \ {v} :
                    r \in DOMAIN projects' /\ projects'[r] = projects[r]]_vars

\* An eviction has just removed one session and left the other one.
C9_Witness ==
    /\ res.op = "get_or_create"
    /\ res.id = nextId
    /\ nextId > max_projects
    /\ orphaned = {"s1"}
    /\ DOMAIN sessions = {"s2"}

\* C10: get_or_create_project on a path whose canonical form is registered
\* returns the registered Project, sets its last_active to the time of the
\* call and changes nothing else: no eviction, no new Project, sessions as
\* they were.
C10_ExistingProjectOnlyTouched ==
    [][\A cwd \in Cwds :
        /\ res'.op = "get_or_create"
        /\ res'.arg = cwd
        /\ Accessible(cwd)
        /\ Canonicalize(cwd) \in DOMAIN projects
        => /\ res'.kind = "ok"
           /\ res'.id = projects[Canonicalize(cwd)].id
           /\ projects' = [projects EXCEPT ![Canonicalize(cwd)].last_active = now']
           /\ sessions' = sessions
           /\ nextId' = nextId]_vars

\* A was registered first, the registry is full, and the last call named A
\* by another spelling: it got A back, now the most recently active project.
C10_Witness ==
    /\ res = [op |-> "get_or_create", arg |-> "A/.", kind |-> "ok", id |-> 1]
    /\ max_projects = 2
    /\ DOMAIN projects = {"A", "B"}
    /\ projects["A"].id = 1
    /\ projects["A"].last_active = now
    /\ projects["B"].last_active < now

\* The registry holds as many projects as it may.
Full == max_projects >= 1 /\ Cardinality(DOMAIN projects) = max_projects

\* C11: get_or_create_project on a path that cannot be canonicalised or is
\* not a directory returns BadRequest and leaves the projects and the
\* sessions as they were, also when the registry is at capacity.
C11_BadPathRejectedUntouched ==
    [][\A cwd \in Cwds :
        /\ res'.op = "get_or_create"
        /\ res'.arg = cwd
        /\ ~Accessible(cwd) \/ ~IsDir(Canonicalize(cwd))
        => /\ res'.kind = "BadRequest"
           /\ projects' = projects
           /\ sessions' = sessions
           /\ nextId' = nextId]_vars

\* A full registry with a session, right after a call naming a regular file
\* was turned down.
C11_Witness ==
    /\ res = [op |-> "get_or_create", arg |-> "file.txt", kind |-> "BadRequest", id |-> 0]
    /\ Full
    /\ sessions # EmptyMap

(***************************************************************************)
(* SpecRegistryRace: get_or_create_project called from several request     *)
(* handlers at once, one DashMap call per step                             *)
(***************************************************************************)
Callers == {"h1", "h2"}

IdleCall == [pc |-> "idle", root |-> "", victim |-> "", mine |-> NewProject(0, 0)]

RaceInit ==
    /\ max_projects \in Capacities
    /\ projects = EmptyMap
    /\ sessions = EmptyMap
    /\ now = 0
    /\ ties = 0
    /\ nextId = 0
    /\ res = NoCall
    /\ s1 = [on |-> FALSE, n |-> 0]
    /\ orphaned = {}
    /\ calls = [c \in Callers |-> IdleCall]
    /\ st = NewTable
    /\ IndexRest
    /\ CacheRest

\* A handler calls get_or_create_project(cwd) for an accessible directory.
RaceBegin(c) ==
    /\ calls[c].pc = "idle"
    /\ \E cwd \in Roots \cup {"A/."} :
        calls' = [calls EXCEPT ![c] = [IdleCall EXCEPT !.pc = "lookup",
                                                       !.root = Canonicalize(cwd)]]
    /\ UNCHANGED <<projects, sessions, max_projects, now, ties, nextId, res, s1, orphaned>>
    /\ UNCHANGED <<indexVars, cacheVars>>

\* projects.get(&canonical): found, touch it and return it.
RaceLookup(c) ==
    /\ calls[c].pc = "lookup"
    /\ IF calls[c].root \in DOMAIN projects
       THEN \E t \in Clock :
            /\ projects' = Touch(projects, calls[c].root, t)
            /\ now' = t
            /\ ties' = Tied(t)
            /\ res' = Call("get_or_create", calls[c].root, Ok(projects[calls[c].root].id))
            /\ calls' = [calls EXCEPT ![c] = IdleCall]
       ELSE /\ calls' = [calls EXCEPT ![c].pc = "check"]
            /\ UNCHANGED <<projects, now, ties, res>>
    /\ UNCHANGED <<sessions, max_projects, nextId, s1, orphaned>>
    /\ UNCHANGED <<indexVars, cacheVars>>

\* if projects.len() >= max_projects { evict_lru() }
RaceCheck(c) ==
    /\ calls[c].pc = "check"
    /\ calls' = [calls EXCEPT ![c].pc =
                    IF AtCapacity(projects, max_projects) THEN "evict_find" ELSE "build"]
    /\ UNCHANGED <<projects, sessions, max_projects, now, ties, nextId, res, s1, orphaned>>
    /\ UNCHANGED <<indexVars, cacheVars>>

\* evict_lru: the min_by_key scan; an empty registry is an Internal error.
RaceEvictFind(c) ==
    /\ calls[c].pc = "evict_find"
    /\ IF DOMAIN projects = {}
       THEN /\ calls' = [calls EXCEPT ![c] = IdleCall]
            /\ res' = Call("get_or_create", calls[c].root, Err("Internal"))
       ELSE /\ \E victim \in LruVictims(projects) :
                calls' = [calls EXCEPT ![c].pc = "evict_remove", ![c].victim = victim]
            /\ UNCHANGED res
    /\ UNCHANGED <<projects, sessions, max_projects, now, ties, nextId, s1, orphaned>>
    /\ UNCHANGED <<indexVars, cacheVars>>

\* evict_lru: projects.remove(&path)
RaceEvictRemove(c) ==
    /\ calls[c].pc = "evict_remove"
    /\ projects' = MapDel(projects, calls[c].victim)
    /\ calls' = [calls EXCEPT ![c].pc = "evict_retain"]
    /\ UNCHANGED <<sessions, max_projects, now, ties, nextId, res, s1, orphaned>>
    /\ UNCHANGED <<indexVars, cacheVars>>

\* evict_lru: sessions.retain(..)
RaceEvictRetain(c) ==
    /\ calls[c].pc = "evict_retain"
    /\ sessions' = RetainSessions(sessions, calls[c].victim)
    /\ calls' = [calls EXCEPT ![c].pc = "build"]
    /\ UNCHANGED <<projects, max_projects, now, ties, nextId, res, s1, orphaned>>
    /\ UNCHANGED <<indexVars, cacheVars>>

\* The scan, the watcher and Arc::new(Project { .. }): nothing shared is
\* written.
RaceBuild(c) ==
    /\ calls[c].pc = "build"
    /\ nextId < MaxBuilt
    /\ \E t \in Clock :
        /\ calls' = [calls EXCEPT ![c].pc = "install",
                                  ![c].mine = NewProject(nextId + 1, t)]
        /\ now' = t
        /\ ties' = Tied(t)
    /\ nextId' = nextId + 1
    /\ UNCHANGED <<projects, sessions, max_projects, res, s1, orphaned>>
    /\ UNCHANGED <<indexVars, cacheVars>>

\* projects.insert(canonical, project.clone()), and the return.
RaceInstall(c) ==
    /\ calls[c].pc = "install"
    /\ projects' = MapPut(projects, calls[c].root, calls[c].mine)
    /\ res' = Call("get_or_create", calls[c].root, Ok(calls[c].mine.id))
    /\ calls' = [calls EXCEPT ![c] = IdleCall]
    /\ UNCHANGED <<sessions, max_projects, now, ties, nextId, s1, orphaned>>
    /\ UNCHANGED <<indexVars, cacheVars>>

RaceNext ==
    \E c \in Callers :
        \/ RaceBegin(c)
        \/ RaceLookup(c)
        \/ RaceCheck(c)
        \/ RaceEvictFind(c)
        \/ RaceEvictRemove(c)
        \/ RaceEvictRetain(c)
        \/ RaceBuild(c)
        \/ RaceInstall(c)

SpecRegistryRace == RaceInit /\ [][RaceNext]_vars

(***************************************************************************)
(* SpecHandles: SpecRegistryRace with the Arc<Project> each handler got    *)
(* from its last get_or_create_project call kept in the handler's locals;  *)
(* the registry has room for every root the handlers name                  *)
(***************************************************************************)
\* A handler at rest: `held` is the id of the Project its last call returned
\* for `root`, 0 when it holds none.
NoHandle ==
    [pc |-> "idle", root |-> "", victim |-> "", mine |-> NewProject(0, 0), held |-> 0]

HandleRoots == {"A", "B"}

HandleInit ==
    /\ max_projects = Cardinality(HandleRoots)
    /\ projects = EmptyMap
    /\ sessions = EmptyMap
    /\ now = 0
    /\ ties = 0
    /\ nextId = 0
    /\ res = NoCall
    /\ s1 = [on |-> FALSE, n |-> 0]
    /\ orphaned = {}
    /\ calls = [c \in Callers |-> NoHandle]
    /\ st = NewTable
    /\ IndexRest
    /\ CacheRest

\* The handler's earlier request is over and its Arc dropped; it calls
\* get_or_create_project(cwd).
HandleBegin(c) ==
    /\ calls[c].pc = "idle"
    /\ \E cwd \in HandleRoots \cup {"A/."} :
        calls' = [calls EXCEPT ![c] = [NoHandle EXCEPT !.pc = "lookup",
                                                       !.root = Canonicalize(cwd)]]
    /\ UNCHANGED <<projects, sessions, max_projects, now, ties, nextId, res, s1, orphaned>>
    /\ UNCHANGED <<indexVars, cacheVars>>

\* projects.get(&canonical): found, touch it and return a clone of the Arc
\* in the registry.
HandleLookup(c) ==
    /\ calls[c].pc = "lookup"
    /\ IF calls[c].root \in DOMAIN projects
       THEN \E t \in Clock :
            /\ projects' = Touch(projects, calls[c].root, t)
            /\ now' = t
            /\ ties' = Tied(t)
            /\ res' = Call("get_or_create", calls[c].root, Ok(projects[calls[c].root].id))
            /\ calls' = [calls EXCEPT ![c] = [NoHandle EXCEPT !.root = calls[c].root,
                                                            !.held = projects[calls[c].root].id]]
       ELSE /\ calls' = [calls EXCEPT ![c].pc = "check"]
            /\ UNCHANGED <<projects, now, ties, res>>
    /\ UNCHANGED <<sessions, max_projects, nextId, s1, orphaned>>
    /\ UNCHANGED <<indexVars, cacheVars>>

\* projects.insert(canonical, project.clone()), and Ok(project): the Arc the
\* call built itself.
HandleInstall(c) ==
    /\ calls[c].pc = "install"
    /\ projects' = MapPut(projects, calls[c].root, calls[c].mine)
    /\ res' = Call("get_or_create", calls[c].root, Ok(calls[c].mine.id))
    /\ calls' = [calls EXCEPT ![c] = [NoHandle EXCEPT !.root = calls[c].root,
                                                    !.held = calls[c].mine.id]]
    /\ UNCHANGED <<sessions, max_projects, now, ties, nextId, s1, orphaned>>
    /\ UNCHANGED <<indexVars, cacheVars>>

HandlesNext ==
    \E c \in Callers :
        \/ HandleBegin(c)
        \/ HandleLookup(c)
        \/ RaceCheck(c)
        \/ RaceEvictFind(c)
        \/ RaceEvictRemove(c)
        \/ RaceEvictRetain(c)
        \/ RaceBuild(c)
        \/ HandleInstall(c)

SpecHandles == HandleInit /\ [][HandlesNext]_vars

\* ---------------------------------------------------------------------
\* SpecLocks: the guards each operation takes on the DashMaps of AppState,
\* FileTree and SymbolTable and on a Project's last_active mutex, in the
\* order its code takes and drops them.  Every map is one shard and every
\* guard is exclusive, the most contended case the maps allow.
\* ---------------------------------------------------------------------

Locks == {"sessions", "projects", "last_active", "files", "symbols", "by_name", "by_file"}

Lockers == Callers \cup {"watcher", "extract"}

Acq(l) == <<"acq", l>>

Rel(l) == <<"rel", l>>

\* One map call whose guard is dropped before the call returns.
Once(l) == <<Acq(l), Rel(l)>>

\* SymbolTable::insert: by_name.entry, by_file.entry, symbols.insert, each
\* guard a temporary of its own statement.
SymInsertLocks == Once("by_name") \o Once("by_file") \o Once("symbols")

\* SymbolTable::remove_file for a file with one symbol: by_file.remove,
\* symbols.remove, by_name.get_mut with drop(name_set) ahead of
\* by_name.remove.
SymRemoveFileLocks == Once("by_file") \o Once("symbols") \o Once("by_name") \o Once("by_name")

\* SymbolTable::list_by_file: symbols.get under the by_file guard.
ListByFileLocks == <<Acq("by_file"), Acq("symbols"), Rel("symbols"), Rel("by_file")>>

\* A mutex taken ahead of the map that holds its project.
MutexFirstLocks == <<Acq("last_active"), Acq("projects"), Rel("projects"), Rel("last_active")>>

\* touch_project: last_active.lock() under the projects guard.
TouchProjectLocks == <<Acq("projects"), Acq("last_active"), Rel("last_active"), Rel("projects")>>

\* get_project_for_session: projects.get under the sessions guard.
GetProjectForSessionLocks == <<Acq("sessions"), Acq("projects"), Rel("projects"), Rel("sessions")>>

\* evict_lru: last_active.lock() under the guard of projects.iter(), then
\* projects.remove, then sessions.retain.
EvictLruLocks ==
    <<Acq("projects"), Acq("last_active"), Rel("last_active"), Rel("projects")>>
        \o Once("projects") \o Once("sessions")

\* get_or_create_project: the path is found and touched under the guard of
\* projects.get; or projects.get misses, projects.len() is read, evict_lru
\* runs when the registry is full, and projects.insert installs.
GetOrCreateProjectLocks ==
    { <<Acq("projects"), Acq("last_active"), Rel("last_active"), Rel("projects")>>,
      Once("projects") \o Once("projects") \o Once("projects"),
      Once("projects") \o Once("projects") \o EvictLruLocks \o Once("projects") }

\* handle_file_change: file_tree.insert, remove_file, insert of the
\* re-extracted symbol, files.get_mut for the flag.
HandleFileChangeLocks == Once("files") \o SymRemoveFileLocks \o SymInsertLocks \o Once("files")

\* handle_file_delete: file_tree.remove, then remove_file.
HandleFileDeleteLocks == Once("files") \o SymRemoveFileLocks

\* extract_all_symbols: the paths are collected from files.iter(), then per
\* file insert and files.get_mut for the flag.
ExtractAllSymbolsLocks == Once("files") \o SymInsertLocks \o Once("files")

\* The operations a thread may start: request handlers take the registry
\* calls and the reads of the two indexes, the watcher and the extraction
\* task their own work.
OperationsOf(c) ==
    IF c = "watcher" THEN {HandleFileChangeLocks, HandleFileDeleteLocks}
    ELSE IF c = "extract" THEN {ExtractAllSymbolsLocks}
    ELSE GetOrCreateProjectLocks
            \cup {TouchProjectLocks, GetProjectForSessionLocks, ListByFileLocks,
                  Once("symbols"), Once("files")}

NoLocks == [todo |-> <<>>, held |-> {}]

LockInit ==
    /\ max_projects = 1
    /\ projects = EmptyMap
    /\ sessions = EmptyMap
    /\ now = 0
    /\ ties = 0
    /\ nextId = 0
    /\ res = NoCall
    /\ s1 = [on |-> FALSE, n |-> 0]
    /\ orphaned = {}
    /\ calls = [c \in Lockers |-> NoLocks]
    /\ st = NewTable
    /\ IndexRest
    /\ CacheRest

lockFrame ==
    /\ UNCHANGED <<projects, sessions, max_projects, now, ties, nextId, res, s1, orphaned>>
    /\ UNCHANGED <<indexVars, cacheVars>>

\* A thread starts one of its operations.
LockBegin(c) ==
    /\ calls[c].todo = <<>>
    /\ \E op \in OperationsOf(c) : calls' = [calls EXCEPT ![c].todo = op]
    /\ lockFrame

\* The thread's next step takes a guard: it waits while any thread holds it.
LockAcquire(c) ==
    /\ calls[c].todo # <<>>
    /\ Head(calls[c].todo)[1] = "acq"
    /\ \A d \in Lockers : Head(calls[c].todo)[2] \notin calls[d].held
    /\ calls' = [calls EXCEPT ![c] = [todo |-> Tail(calls[c].todo),
                                      held |-> calls[c].held \cup {Head(calls[c].todo)[2]}]]
    /\ lockFrame

\* The thread's next step drops a guard.
LockRelease(c) ==
    /\ calls[c].todo # <<>>
    /\ Head(calls[c].todo)[1] = "rel"
    /\ calls' = [calls EXCEPT ![c] = [todo |-> Tail(calls[c].todo),
                                      held |-> calls[c].held \ {Head(calls[c].todo)[2]}]]
    /\ lockFrame

LocksNext ==
    \E c \in Lockers :
        \/ LockBegin(c)
        \/ LockAcquire(c)
        \/ LockRelease(c)

SpecLocks == LockInit /\ [][LocksNext]_vars

\* Thread c is stopped at a guard that thread d holds.
WaitsFor(c, d) ==
    /\ calls[c].todo # <<>>
    /\ Head(calls[c].todo)[1] = "acq"
    /\ Head(calls[c].todo)[2] \in calls[d].held

\* Every get_or_create_project call has returned.
AllReturned == \A c \in Callers : calls[c].pc = "idle"

\* C8: once concurrent get_or_create_project calls have returned, the
\* registry holds no more than max_projects projects.
C8_RaceKeepsCapacity == AllReturned => Cardinality(DOMAIN projects) <= max_projects

(***************************************************************************)
(* SpecEviction: the watcher of a project that is evicted while request    *)
(* handlers hold the Arc<Project> that require_project gave them.  The     *)
(* index variables are the File Tree and Symbol Table of the project built *)
(* first (id 1, root A).                                                   *)
(***************************************************************************)
\* The Arc<Project> a handler holds between require_project and its return.
Holding(project, root) == [IdleCall EXCEPT !.pc = "holding", !.root = root, !.mine = project]

\* The request handlers of the model that resolve a session to its project.
Holders == {"h1"}

\* The registry's map holds the first project.
Registered1 == \E r \in DOMAIN projects : projects[r].id = 1

\* Project 1 has not been dropped: some Arc to it is left, in the registry
\* or in a handler, so its WatcherHandle (Project::watcher) is alive.
WatcherAlive == Registered1 \/ \E c \in Holders : calls[c].pc = "holding" /\ calls[c].mine.id = 1

EvictionInit ==
    /\ disk \in InitialDisks
    /\ ft = ExtractedTree(disk)
    /\ st = ExtractedTable(disk)
    /\ events = {}
    /\ edits = 0
    /\ w = Idle
    /\ e = Done
    /\ max_projects = 1
    /\ projects = MapPut(EmptyMap, "A", NewProject(1, 0))
    /\ sessions = MapPut(EmptyMap, "s1", NewSession("A"))
    /\ now = 0
    /\ ties = 0
    /\ nextId = 1
    /\ res = NoCall
    /\ s1 = [on |-> FALSE, n |-> 0]
    /\ orphaned = {}
    /\ calls = [c \in Holders |-> IdleCall]
    /\ CacheRest

\* routes::require_project: get_project_for_session, touch_project, and the
\* Arc<Project> handed to the handler.
RequireProject(c) ==
    /\ calls[c].pc = "idle"
    /\ \E sid \in SessionIds, t \in Clock :
        /\ ProjectForSession(sid).kind = "ok"
        /\ projects' = Touch(projects, sessions[sid].project_path, t)
        /\ calls' = [calls EXCEPT ![c] = Holding(projects'[sessions[sid].project_path],
                                                 sessions[sid].project_path)]
        /\ res' = Call("require_project", sid, ProjectForSession(sid))
        /\ now' = t
        /\ ties' = Tied(t)
    /\ UNCHANGED <<sessions, max_projects, nextId, s1, orphaned>>
    /\ UNCHANGED <<indexVars, cacheVars>>

\* The handler returns and its Arc<Project> is dropped.
HandlerReturn(c) ==
    /\ calls[c].pc = "holding"
    /\ calls' = [calls EXCEPT ![c] = IdleCall]
    /\ UNCHANGED <<projects, sessions, max_projects, now, ties, nextId, res, s1, orphaned>>
    /\ UNCHANGED <<indexVars, cacheVars>>

\* get_or_create_project for another root, run whole: at capacity it evicts.
CreateOther ==
    \E cwd \in Roots \ {"A"}, t \in Clock, victim \in Victims :
        LET out == GetOrCreateProject(Registry, cwd, t, victim) IN
        /\ out.nextId <= MaxBuilt
        /\ projects' = out.projects
        /\ sessions' = out.sessions
        /\ nextId' = out.nextId
        /\ now' = t
        /\ ties' = Tied(t)
        /\ res' = Call("get_or_create", cwd, out.res)
        /\ orphaned' = orphaned \cup Orphans(out.evicted)
        /\ UNCHANGED <<max_projects, calls, s1>>
        /\ UNCHANGED <<indexVars, cacheVars>>

\* The debouncer thread of project 1 runs handle_events as long as the
\* WatcherHandle has not been dropped; the drop stops it where it is.
WatcherDispatch == WatcherAlive /\ WatcherNext

EvictionNext ==
    \/ FsEdit
    \/ WatcherDispatch
    \/ CreateOther
    \/ \E c \in Holders : RequireProject(c) \/ HandlerReturn(c)

SpecEviction == EvictionInit /\ [][EvictionNext]_vars

\* C12: once evict_lru has removed a project from the registry, no watcher
\* callback writes that project's File Tree or Symbol Table any more, also
\* while a request handler still holds the evicted Project.
C12_EvictedProjectWatcherStopped == [][~Registered1 => ft' = ft /\ st' = st]_vars

(***************************************************************************)
(* File Records with all their fields, the walker's and the watcher's      *)
(* ignore rules, and the watcher's handlers run without interruption       *)
(***************************************************************************)
\* The paths of the project whose cache is modelled; ".h.py" is a dotfile.
StorePaths == {"a.py", "b.py", "c.py", "x.rs", ".h.py"}

\* WalkBuilder::hidden(true): the walk skips dotfiles.
Hidden(path) == path = ".h.py"

\* Language::from_path
LanguageOf(path) ==
    IF path \in {"x.rs", "a.rs", "target/a.rs", "png.rs"} THEN "rust"
    ELSE IF path = "x.min.js" THEN "javascript"
    ELSE IF path = "LOGO.PNG" THEN "other"
    ELSE "python"

\* A regular file: its metadata, the declarations in it, and whether
\* read_to_string can read it (it cannot when the bytes are not UTF-8).
File(size, modified, names, readable) ==
    [exists |-> TRUE, size |-> size, modified |-> modified, names |-> names,
     readable |-> readable]

\* FileEntry::new(rel_path, size, modified)
FileEntryNew(rel_path, size, modified) ==
    [rel_path |-> rel_path, size |-> size, modified |-> modified,
     language |-> LanguageOf(rel_path), definition |-> None, marks |-> <<>>,
     symbols_extracted |-> FALSE]

\* config::DEFAULT_IGNORE_DIRS
IgnoreDirs ==
    {"node_modules", "vendor", "__pycache__", ".pycache", "target", "dist", "build", ".git",
     ".hg", ".svn", ".next", ".nuxt", ".output", ".cache", ".tox", ".mypy_cache",
     ".pytest_cache", ".ruff_cache", "venv", ".venv", "env", ".env", "coverage", ".coverage",
     ".nyc_output", "htmlcov", ".terraform", ".serverless"}

\* config::DEFAULT_IGNORE_EXTENSIONS
IgnoreExtensions ==
    {"min.js", "min.css", "pyc", "pyo", "class", "o", "so", "dylib", "dll", "exe", "a", "lib",
     "jar", "war", "ear", "zip", "tar", "gz", "bz2", "xz", "7z", "rar", "png", "jpg", "jpeg",
     "gif", "bmp", "ico", "svg", "webp", "mp3", "mp4", "avi", "mov", "wmv", "flv", "woff",
     "woff2", "ttf", "eot", "otf", "pdf", "doc", "docx", "xls", "xlsx", "ppt", "pptx", "db",
     "sqlite", "sqlite3", "lock", "map"}

\* The limit on the size of an indexed file (config::DEFAULT_MAX_FILE_SIZE,
\* scaled down).
MaxFileSize == 2

\* The paths of the project whose ignore rules are modelled, and the names
\* between the slashes of the paths of the model.
FilterPaths == {"a.rs", "target/a.rs", "src/env/b.py", "LOGO.PNG", "png.rs", "x.min.js"}

Segments ==
    {"a.rs", "target", "src", "env", "b.py", "LOGO.PNG", "png.rs", "x.min.js",
     "a.py", "c.py", "x.rs", ".h.py"}

\* The components joined with '/'.
RECURSIVE JoinSlash(_)
JoinSlash(components) ==
    IF Len(components) = 1 THEN components[1]
    ELSE components[1] \o "/" \o JoinSlash(Tail(components))

\* rel_path.split('/'), worked out once for every path of the model.
SplitTable ==
    [rel_path \in StorePaths \cup FilterPaths |->
        CHOOSE components \in UNION {[1 .. n -> Segments] : n \in 1 .. 3} :
            JoinSlash(components) = rel_path]

SplitSlash(rel_path) == SplitTable[rel_path]

ShouldSkipNever(rel_path) == FALSE

\* walker::should_skip and watcher::should_skip: some component is an
\* ignored directory name.
ShouldSkip(rel_path) ==
    \E i \in DOMAIN SplitSlash(rel_path) : SplitSlash(rel_path)[i] \in IgnoreDirs

\* str::to_lowercase on the paths of the model.
ToLower(path) == IF path = "LOGO.PNG" THEN "logo.png" ELSE path

\* The prefixes of the lower-cased paths of the model that a dot follows.
Stems == {"", ".h", "a", "b", "c", "x", "x.min", "target/a", "src/env/b", "logo", "png"}

\* str::ends_with
EndsWith(s, suffix) == \E stem \in Stems : stem \o suffix = s

\* config::should_ignore_extension, worked out once for every path of the
\* model.
IgnoredExtensionTable ==
    [path \in StorePaths \cup FilterPaths |->
        \E ext \in IgnoreExtensions : EndsWith(ToLower(path), "." \o ext)]

ShouldIgnoreExtension(path) == IgnoredExtensionTable[path]

\* walker::scan_directory into an empty File Tree.
ScanFiles(d) ==
    [p \in {q \in DOMAIN d :
                /\ d[q].exists
                /\ ~Hidden(q)
                /\ ~ShouldSkip(q)
                /\ ~ShouldIgnoreExtension(q)
                /\ d[q].size <= MaxFileSize} |->
        FileEntryNew(p, d[p].size, d[p].modified)]

\* extract_symbols_from_file: Err when the file cannot be read.
ExtractFromFile(path, content) ==
    IF content.readable
    THEN [ok |-> TRUE, symbols |-> ExtractSymbols(path, content)]
    ELSE [ok |-> FALSE, symbols |-> {}]

\* The File Tree and the Symbol Table of a project, as one value.
Index(tree, table) == [tree |-> tree, table |-> table]

\* watcher::handle_file_change, run without interruption.
HandleFileChange(idx, path, d) ==
    LET tree1  == MapPut(idx.tree, path, FileEntryNew(path, d[path].size, d[path].modified))
        table1 == RemoveFile(idx.table, path)
        got    == ExtractFromFile(path, d[path])
    IN  IF ShouldIgnoreExtension(path) THEN idx
        ELSE IF d[path].size > MaxFileSize THEN idx
        ELSE IF HasTreeSitterSupport(path) /\ got.ok
        THEN Index(MarkExtracted(tree1, path), InsertAll(table1, got.symbols))
        ELSE Index(tree1, table1)

\* watcher::handle_file_delete, run without interruption.
HandleFileDelete(idx, path) ==
    IF path \in DOMAIN idx.tree
    THEN Index(MapDel(idx.tree, path), RemoveFile(idx.table, path))
    ELSE idx

\* watcher::handle_events for one terminal event (dotfiles are not skipped
\* here).
HandleEvent(idx, path, d) ==
    IF ShouldSkip(path) THEN idx
    ELSE IF d[path].exists THEN HandleFileChange(idx, path, d)
    ELSE HandleFileDelete(idx, path)

RedefineFileNothing(tree, file, definition) == tree

\* structure::redefine_file
RedefineFile(tree, file, definition) ==
    IF file \in DOMAIN tree
    THEN MapPut(tree, file, [tree[file] EXCEPT !.definition = Some(definition)])
    ELSE tree

\* A mark_file that pushes the mark whether or not the record holds it.
MarkFileAlways(tree, file, mark) ==
    IF file \in DOMAIN tree
    THEN MapPut(tree, file, [tree[file] EXCEPT !.marks = Append(@, mark)])
    ELSE tree

\* structure::mark_file once the mark string is parsed
MarkFile(tree, file, mark) ==
    IF file \in DOMAIN tree /\ \A i \in 1..Len(tree[file].marks) : tree[file].marks[i] # mark
    THEN MapPut(tree, file, [tree[file] EXCEPT !.marks = Append(@, mark)])
    ELSE tree

(***************************************************************************)
(* ops/structure.rs, ops/symbol_ops.rs, ops/annotations.rs: the agent's    *)
(* definitions and marks                                                   *)
(***************************************************************************)
\* enum FileMark
FileMarks == {"Documentation", "Ignore", "Test", "Config", "Generated", "Custom"}

\* format!("{:?}", mark).to_lowercase()
DebugLower(mark) ==
    CASE mark = "Documentation" -> "documentation"
      [] mark = "Ignore"        -> "ignore"
      [] mark = "Test"          -> "test"
      [] mark = "Config"        -> "config"
      [] mark = "Generated"     -> "generated"
      [] mark = "Custom"        -> "custom"

\* FileMark::from_str on a lower-case string
FileMarkFromStr(s) ==
    IF s \in {"documentation", "doc", "docs"} THEN Some("Documentation")
    ELSE IF s = "ignore" THEN Some("Ignore")
    ELSE IF s \in {"test", "tests"} THEN Some("Test")
    ELSE IF s \in {"config", "configuration"} THEN Some("Config")
    ELSE IF s \in {"generated", "gen"} THEN Some("Generated")
    ELSE IF s = "custom" THEN Some("Custom")
    ELSE None

\* Result<(), String>
Result(kind, value) == [kind |-> kind, value |-> value]

DefineFileOverwriting(tree, file, definition) ==
    Result("Ok", RedefineFile(tree, file, definition))

\* structure::define_file
DefineFile(tree, file, definition) ==
    IF file \notin DOMAIN tree THEN Result("Err", tree)
    ELSE IF tree[file].definition # None THEN Result("Err", tree)
    ELSE Result("Ok", MapPut(tree, file, [tree[file] EXCEPT !.definition = Some(definition)]))

\* structure::redefine_file with its result
RedefineFileResult(tree, file, definition) ==
    Result(IF file \in DOMAIN tree THEN "Ok" ELSE "Err", RedefineFile(tree, file, definition))

\* structure::mark_file on the string the caller gave
MarkFileStr(tree, file, mark_str) ==
    IF FileMarkFromStr(mark_str) = None THEN Result("Err", tree)
    ELSE IF file \notin DOMAIN tree THEN Result("Err", tree)
    ELSE Result("Ok", MarkFile(tree, file, FileMarkFromStr(mark_str)[1]))

\* symbols.get_mut(key) { sym.definition = Some(definition) }
SetSymbolDefinition(t, key, definition) ==
    [t EXCEPT !.symbols = MapPut(@, key, [@[key] EXCEPT !.definition = Some(definition)])]

\* symbol_ops::define_symbol
DefineSymbol(t, symbol_name, file, definition) ==
    LET key == MakeKey(file, symbol_name) IN
    IF key \notin DOMAIN t.symbols THEN Result("Err", t)
    ELSE IF t.symbols[key].definition # None THEN Result("Err", t)
    ELSE Result("Ok", SetSymbolDefinition(t, key, definition))

\* symbol_ops::redefine_symbol
RedefineSymbol(t, symbol_name, file, definition) ==
    LET key == MakeKey(file, symbol_name) IN
    IF key \notin DOMAIN t.symbols THEN Result("Err", t)
    ELSE Result("Ok", SetSymbolDefinition(t, key, definition))

\* struct AnnotationData as save_annotations fills it: the definitions that
\* are Some, the marks of the files that have any, as lower-case strings.
AnnotationData(tree, table) ==
    LET defined == {k \in DOMAIN table.symbols : table.symbols[k].definition # None}
        KeyOf(k) == MakeKey(table.symbols[k].file, table.symbols[k].name)
    IN  [file_definitions |->
            [p \in {q \in DOMAIN tree : tree[q].definition # None} |-> tree[p].definition[1]],
         file_marks |->
            [p \in {q \in DOMAIN tree : tree[q].marks # <<>>} |->
                [i \in 1 .. Len(tree[p].marks) |-> DebugLower(tree[p].marks[i])]],
         symbol_definitions |->
            [key \in {KeyOf(k) : k \in defined} |->
                table.symbols[CHOOSE k \in defined : KeyOf(k) = key].definition[1]]]

\* serde_json::to_string_pretty: the three maps in the order of the struct.
ToJson(data) == <<data.file_definitions, data.file_marks, data.symbol_definitions>>

\* serde_json::from_str into AnnotationData
FromJson(json) ==
    [file_definitions |-> json[1], file_marks |-> json[2], symbol_definitions |-> json[3]]

\* load_annotations, the marks of one file: each known mark that the record
\* does not hold is pushed, in the order of the list.
RECURSIVE ApplyMarks(_, _, _)
ApplyMarks(tree, path, marks) ==
    IF marks = <<>> THEN tree
    ELSE ApplyMarks(IF FileMarkFromStr(Head(marks)) = None THEN tree
                    ELSE MarkFile(tree, path, FileMarkFromStr(Head(marks))[1]),
                    path, Tail(marks))

RECURSIVE ApplyFileMarks(_, _, _)
ApplyFileMarks(tree, file_marks, paths) ==
    IF paths = {} THEN tree
    ELSE LET path == CHOOSE p \in paths : TRUE
         IN  ApplyFileMarks(ApplyMarks(tree, path, file_marks[path]), file_marks,
                            paths \ {path})

LoadAnnotationsNothing(file, tree, table) == Index(tree, table)

\* load_annotations: the definitions and marks of the file are applied to
\* the records that exist; the others are skipped.
LoadAnnotations(file, tree, table) ==
    IF ~file.exists THEN Index(tree, table)
    ELSE LET data  == FromJson(file.bytes)
             tree1 == [p \in DOMAIN tree |->
                        IF p \in DOMAIN data.file_definitions
                        THEN [tree[p] EXCEPT !.definition = Some(data.file_definitions[p])]
                        ELSE tree[p]]
             tree2 == ApplyFileMarks(tree1, data.file_marks,
                                     DOMAIN data.file_marks \cap DOMAIN tree)
             syms  == [k \in DOMAIN table.symbols |->
                        IF k \in DOMAIN data.symbol_definitions
                        THEN [table.symbols[k] EXCEPT
                                !.definition = Some(data.symbol_definitions[k])]
                        ELSE table.symbols[k]]
         IN  Index(tree2, [table EXCEPT !.symbols = syms])

(***************************************************************************)
(* ops/cache.rs: the index cache at .coderlm/index.bin                     *)
(***************************************************************************)
CACHE_VERSION == 1

\* A file at .coderlm/index.bin holding these bytes.
OnFile(bytes) == [exists |-> TRUE, bytes |-> bytes]

\* struct IndexCache, as save_index fills it from the two tables.
IndexCache(version, tree, table) ==
    [version |-> version, file_entries |-> tree, symbols |-> table.symbols,
     symbols_by_name |-> table.by_name, symbols_by_file |-> table.by_file]

\* bincode::serialize(&cache): the fields one after the other, in the
\* order of their declaration.
Serialize(cache) ==
    <<cache.version, cache.file_entries, cache.symbols, cache.symbols_by_name,
      cache.symbols_by_file>>

\* bincode::deserialize(&bytes): fails when the input ends before the last
\* field.
Deserialize(bytes) ==
    IF Len(bytes) = 5
    THEN [ok |-> TRUE,
          cache |-> [version |-> bytes[1], file_entries |-> bytes[2], symbols |-> bytes[3],
                     symbols_by_name |-> bytes[4], symbols_by_file |-> bytes[5]]]
    ELSE [ok |-> FALSE, cache |-> IndexCache(0, EmptyMap, NewTable)]

\* save_index: the bytes it hands to std::fs::write.
SaveBytes(idx) == Serialize(IndexCache(CACHE_VERSION, idx.tree, idx.table))

\* load_index returning Err: the tables are as they were.
LoadErr(idx) ==
    [kind |-> "err", cached |-> 0, changed |-> 0, new |-> 0, deleted |-> 0,
     files_to_extract |-> {}, tree |-> idx.tree, table |-> idx.table]

VersionAny(version) == TRUE

\* cache.version != CACHE_VERSION is an error.
VersionOk(version) == version = CACHE_VERSION

SameStatAlways(cached_entry, fresh_entry) == TRUE

SameSize(cached_entry, fresh_entry) == cached_entry.size = fresh_entry.size

\* cached_entry.modified == fresh_entry.modified && cached_entry.size == fresh_entry.size
SameStat(cached_entry, fresh_entry) ==
    /\ cached_entry.modified = fresh_entry.modified
    /\ cached_entry.size = fresh_entry.size

ValidKeysUnfiltered(keys, symbols) == keys

\* keys.iter().filter(|k| symbol_table.symbols.contains_key(k)).collect()
ValidKeys(keys, symbols) == keys \cap DOMAIN symbols

\* load_index from the version check on (cache.rs 121-224), with `cache`
\* the deserialized blob, `d` the directory and `idx` the tables passed in.
Reconcile(cache, d, idx) ==
    LET fresh        == ScanFiles(d)
        cached_paths == DOMAIN cache.file_entries
        fresh_paths  == DOMAIN fresh
        Same(p)      == SameStat(cache.file_entries[p], fresh[p])
        unchanged    == {p \in fresh_paths \cap cached_paths : Same(p)}
        changed      == {p \in fresh_paths \cap cached_paths : ~Same(p)}
        new          == fresh_paths \ cached_paths
        tree         == [p \in DOMAIN idx.tree \cup fresh_paths |->
                            IF p \in unchanged THEN cache.file_entries[p]
                            ELSE IF p \in fresh_paths THEN fresh[p]
                            ELSE idx.tree[p]]
        to_extract   == changed \cup new
        stale_files  == to_extract \cup (cached_paths \ fresh_paths)
        kept         == {k \in DOMAIN cache.symbols : cache.symbols[k].file \notin stale_files}
        symbols      == [k \in DOMAIN idx.table.symbols \cup kept |->
                            IF k \in kept THEN cache.symbols[k] ELSE idx.table.symbols[k]]
        names        == {n \in DOMAIN cache.symbols_by_name :
                            ValidKeys(cache.symbols_by_name[n], symbols) # {}}
        by_name      == [n \in DOMAIN idx.table.by_name \cup names |->
                            IF n \in names
                            THEN ValidKeys(cache.symbols_by_name[n], symbols)
                            ELSE idx.table.by_name[n]]
        files        == {f \in DOMAIN cache.symbols_by_file :
                            /\ f \notin stale_files
                            /\ ValidKeys(cache.symbols_by_file[f], symbols) # {}}
        by_file      == [f \in DOMAIN idx.table.by_file \cup files |->
                            IF f \in files
                            THEN ValidKeys(cache.symbols_by_file[f], symbols)
                            ELSE idx.table.by_file[f]]
    IN  [kind |-> "ok", cached |-> Cardinality(unchanged), changed |-> Cardinality(changed),
         new |-> Cardinality(new), deleted |-> Cardinality(cached_paths \ fresh_paths),
         files_to_extract |-> to_extract, tree |-> tree,
         table |-> [symbols |-> symbols, by_name |-> by_name, by_file |-> by_file]]

\* load_index(root, file_tree, symbol_table, max_file_size)
LoadIndex(file, d, idx) ==
    IF ~file.exists THEN LoadErr(idx)
    ELSE IF ~Deserialize(file.bytes).ok THEN LoadErr(idx)
    ELSE IF ~VersionOk(Deserialize(file.bytes).cache.version) THEN LoadErr(idx)
    ELSE Reconcile(Deserialize(file.bytes).cache, d, idx)

(***************************************************************************)
(* SpecStore: one project whose directory is edited, whose watcher handles *)
(* each event without interruption, whose File Records are annotated, and  *)
(* whose index is saved to the cache and loaded from it                    *)
(***************************************************************************)
MaxStoreEdits == 3

\* The contents a file of the project can take.
Versions(path) ==
    IF path = "x.rs"
    THEN {File(1, 1, {"foo"}, TRUE), File(1, 2, {"bar"}, TRUE), File(1, 2, {}, FALSE)}
    ELSE IF path = "b.py"
    THEN {File(1, 1, {"f"}, TRUE), File(1, 2, {"f"}, TRUE)}
    ELSE IF path \in FilterPaths
    THEN {File(1, 1, {}, TRUE), File(MaxFileSize + 1, 2, {}, TRUE)}
    ELSE {File(1, 1, {"f"}, TRUE)}

\* The directory when the project is indexed: a.py, b.py and x.rs.
StoreDisk0 ==
    [p \in StorePaths |->
        IF p \in {"a.py", "b.py", "x.rs"} THEN File(1, 1, IF p = "x.rs" THEN {"foo"} ELSE {"f"}, TRUE)
        ELSE Absent]

\* scan_directory followed by extract_all_symbols with nothing beside them.
RECURSIVE ExtractAll(_, _, _)
ExtractAll(idx, paths, d) ==
    IF paths = {} THEN idx
    ELSE LET p   == CHOOSE q \in paths : TRUE
             got == ExtractFromFile(p, d[p])
         IN  ExtractAll(IF got.ok
                        THEN Index(MarkExtracted(idx.tree, p), InsertAll(idx.table, got.symbols))
                        ELSE idx,
                        paths \ {p}, d)

Indexed(d) ==
    ExtractAll(Index(ScanFiles(d), NewTable),
               {p \in DOMAIN ScanFiles(d) : HasTreeSitterSupport(p)}, d)

Did(op, arg) == [NoCall EXCEPT !.op = op, !.arg = arg]

StoreRest ==
    /\ e = Done
    /\ annotations = NoFile
    /\ projects = EmptyMap
    /\ sessions = EmptyMap
    /\ max_projects = 0
    /\ now = 0
    /\ ties = 0
    /\ nextId = 0
    /\ s1 = [on |-> FALSE, n |-> 0]
    /\ orphaned = {}
    /\ calls = EmptyMap

storeFrame ==
    <<e, projects, sessions, max_projects, now, ties, nextId, s1, orphaned, calls, annotations>>

StoreInit ==
    /\ disk = StoreDisk0
    /\ ft = Indexed(disk).tree
    /\ st = Indexed(disk).table
    /\ events = {}
    /\ edits = 0
    /\ w = Idle
    /\ blob = NoFile
    /\ stats = NoStats
    /\ saved = NoSave
    /\ res = NoCall
    /\ StoreRest

\* A file among `paths` is written, created or deleted; a running watcher
\* gets an event for it.
EditIn(paths) ==
    \E path \in paths : \E c \in Versions(path) \cup {Absent} :
        /\ edits < MaxStoreEdits
        /\ c # disk[path]
        /\ disk' = [disk EXCEPT ![path] = c]
        /\ events' = IF w.pc = "idle" THEN events \cup {path} ELSE events
        /\ edits' = edits + 1
        /\ UNCHANGED <<ft, st, w, blob, stats, saved, res>>
        /\ UNCHANGED storeFrame

StoreEdit == EditIn(StorePaths)

\* The watcher handles the terminal event of one path.
StoreWatch ==
    \E path \in events :
        /\ w.pc = "idle"
        /\ ft' = HandleEvent(Index(ft, st), path, disk).tree
        /\ st' = HandleEvent(Index(ft, st), path, disk).table
        /\ events' = events \ {path}
        /\ res' = Did(IF disk[path].exists THEN "handle_file_change" ELSE "handle_file_delete",
                       path)
        /\ UNCHANGED <<disk, edits, w, blob, stats, saved>>
        /\ UNCHANGED storeFrame

\* The agent annotates b.py: redefine_file, then mark_file.
StoreAnnotate ==
    /\ w.pc = "idle"
    /\ ft' = MarkFile(RedefineFile(ft, "b.py", "d"), "b.py", "Test")
    /\ UNCHANGED <<st, disk, events, edits, w, blob, stats, saved, res>>
    /\ UNCHANGED storeFrame

StoreNext ==
    \/ StoreEdit
    \/ StoreWatch
    \/ StoreAnnotate

SpecStore == StoreInit /\ [][StoreNext]_vars

\* The prefixes and suffixes of the symbol names of this specification.
Affixes == {"", "f", "fo", "foo", "oo", "o", "b", "ba", "bar", "ar", "r"}

\* name.contains(query), for the names and queries of this specification.
Contains(name, query) == \E a \in Affixes : \E b \in Affixes : a \o query \o b = name

\* SymbolTable::search with a limit above the size of the table (names and
\* queries are lower case here, so to_lowercase changes nothing).
Search(t, query) == {k \in DOMAIN t.symbols : Contains(t.symbols[k].name, query)}

(***************************************************************************)
(* SpecFilter: a project with files in ignored directories, with ignored   *)
(* extensions and over the size limit, scanned and then watched            *)
(***************************************************************************)
\* The directories the project can be scanned in.
FilterDisks0 ==
    {[p \in FilterPaths |-> IF p \in present THEN File(1, 1, {}, TRUE) ELSE Absent] :
        present \in {{}, {"a.rs", "target/a.rs"}, FilterPaths}}

FilterInit ==
    /\ disk \in FilterDisks0
    /\ ft = Indexed(disk).tree
    /\ st = Indexed(disk).table
    /\ events = {}
    /\ edits = 0
    /\ w = Idle
    /\ blob = NoFile
    /\ stats = NoStats
    /\ saved = NoSave
    /\ res = NoCall
    /\ StoreRest

FilterEdit == EditIn(FilterPaths)

FilterNext ==
    \/ FilterEdit
    \/ StoreWatch

SpecFilter == FilterInit /\ [][FilterNext]_vars

(***************************************************************************)
(* SpecAnnotate: the annotation calls of the API on an indexed project,    *)
(* one at a time, with the annotations saved, the server restarted and the *)
(* annotations loaded                                                      *)
(***************************************************************************)
\* The arguments of the calls: b.py is indexed and declares f; c.py is not
\* indexed and b.py declares no zz; "bogus" is no mark.
AnnotFiles == {"b.py", "c.py"}

AnnotSymbols == {"f", "zz"}

Texts == {"d", "e"}

MarkStrs == {"test", "tests", "docs", "bogus"}

Called(op, arg, kind) == [NoCall EXCEPT !.op = op, !.arg = arg, !.kind = kind]

annotFrame ==
    <<e, projects, sessions, max_projects, now, ties, nextId, s1, orphaned, calls,
      disk, events, edits, w, blob, stats>>

AnnotInit ==
    /\ disk = [p \in StorePaths |-> IF p \in {"a.py", "b.py"} THEN File(1, 1, {"f"}, TRUE) ELSE Absent]
    /\ ft = Indexed(disk).tree
    /\ st = Indexed(disk).table
    /\ events = {}
    /\ edits = 0
    /\ w = Idle
    /\ blob = NoFile
    /\ stats = NoStats
    /\ saved = NoSave
    /\ res = NoCall
    /\ StoreRest

ApiDefineFile ==
    \E file \in AnnotFiles : \E definition \in Texts :
        /\ ft' = DefineFile(ft, file, definition).value
        /\ res' = Called("define_file", <<file, definition>>, DefineFile(ft, file, definition).kind)
        /\ UNCHANGED <<st, saved, annotations>>
        /\ UNCHANGED annotFrame

ApiRedefineFile ==
    \E file \in AnnotFiles : \E definition \in Texts :
        /\ ft' = RedefineFileResult(ft, file, definition).value
        /\ res' = Called("redefine_file", <<file, definition>>,
                         RedefineFileResult(ft, file, definition).kind)
        /\ UNCHANGED <<st, saved, annotations>>
        /\ UNCHANGED annotFrame

ApiMarkFile ==
    \E file \in AnnotFiles : \E mark_str \in MarkStrs :
        /\ ft' = MarkFileStr(ft, file, mark_str).value
        /\ res' = Called("mark_file", <<file, mark_str>>, MarkFileStr(ft, file, mark_str).kind)
        /\ UNCHANGED <<st, saved, annotations>>
        /\ UNCHANGED annotFrame

ApiDefineSymbol ==
    \E symbol_name \in AnnotSymbols : \E definition \in Texts :
        /\ st' = DefineSymbol(st, symbol_name, "b.py", definition).value
        /\ res' = Called("define_symbol", <<MakeKey("b.py", symbol_name), definition>>,
                         DefineSymbol(st, symbol_name, "b.py", definition).kind)
        /\ UNCHANGED <<ft, saved, annotations>>
        /\ UNCHANGED annotFrame

ApiRedefineSymbol ==
    \E symbol_name \in AnnotSymbols : \E definition \in Texts :
        /\ st' = RedefineSymbol(st, symbol_name, "b.py", definition).value
        /\ res' = Called("redefine_symbol", <<MakeKey("b.py", symbol_name), definition>>,
                         RedefineSymbol(st, symbol_name, "b.py", definition).kind)
        /\ UNCHANGED <<ft, saved, annotations>>
        /\ UNCHANGED annotFrame

\* save_annotations, run to its end.
ApiSaveAnnotations ==
    /\ annotations' = OnFile(ToJson(AnnotationData(ft, st)))
    /\ saved' = [on |-> TRUE, n |-> 0, tree |-> ft, table |-> st]
    /\ res' = Called("save_annotations", <<>>, "Ok")
    /\ UNCHANGED <<ft, st>>
    /\ UNCHANGED annotFrame

ApiLoadAnnotations ==
    /\ ft' = LoadAnnotations(annotations, ft, st).tree
    /\ st' = LoadAnnotations(annotations, ft, st).table
    /\ res' = Called("load_annotations", <<>>, "Ok")
    /\ UNCHANGED <<saved, annotations>>
    /\ UNCHANGED annotFrame

\* The server is restarted: the project is scanned and extracted anew.
AnnotRestart ==
    /\ ft' = Indexed(disk).tree
    /\ st' = Indexed(disk).table
    /\ res' = Called("restart", <<>>, "Ok")
    /\ UNCHANGED <<saved, annotations>>
    /\ UNCHANGED annotFrame

AnnotNext ==
    \/ ApiDefineFile
    \/ ApiRedefineFile
    \/ ApiMarkFile
    \/ ApiDefineSymbol
    \/ ApiRedefineSymbol
    \/ ApiSaveAnnotations
    \/ ApiLoadAnnotations
    \/ AnnotRestart

SpecAnnotate == AnnotInit /\ [][AnnotNext]_vars

\* ---------------------------------------------------------------------
\* SpecDefine: two request handlers call define_file on the same file or
\* define_symbol on the same symbol at once.  A call is get_mut on the
\* map, the test of definition.is_some(), the assignment, and the drop of
\* the guard at the end of the block.
\* ---------------------------------------------------------------------

\* raced: another call was between its arrival and its return when this
\* one reached the map.
NoDefine == [pc |-> "idle", kind |-> "", text |-> "", result |-> "", raced |-> FALSE]

DefineKinds == {"file", "symbol"}

DefineInit ==
    /\ disk = [p \in StorePaths |-> IF p \in {"a.py", "b.py"} THEN File(1, 1, {"f"}, TRUE) ELSE Absent]
    /\ ft = Indexed(disk).tree
    /\ st = Indexed(disk).table
    /\ events = {}
    /\ edits = 0
    /\ w = Idle
    /\ blob = NoFile
    /\ stats = NoStats
    /\ saved = NoSave
    /\ res = NoCall
    /\ e = Done
    /\ annotations = NoFile
    /\ projects = EmptyMap
    /\ sessions = EmptyMap
    /\ max_projects = 0
    /\ now = 0
    /\ ties = 0
    /\ nextId = 0
    /\ s1 = [on |-> FALSE, n |-> 0]
    /\ orphaned = {}
    /\ calls = [c \in Callers |-> NoDefine]

defineFrame ==
    <<e, projects, sessions, max_projects, now, ties, nextId, s1, orphaned,
      disk, events, edits, w, blob, stats, saved, annotations>>

\* The handler holds the RefMut that get_mut returned.
InGuard(c) == calls[c].pc \in {"check", "set"}

GuardFreeAlways(c) == TRUE

\* get_mut waits until no other handler holds a guard on the entry's shard.
GuardFree(c) ==
    \A d \in Callers \ {c} : ~(InGuard(d) /\ calls[d].kind = calls[c].kind)

\* The definition the entry holds: b.py's record, or symbol f of b.py.
StoredDefinition(kind) ==
    IF kind = "file" THEN ft["b.py"].definition
    ELSE st.symbols[MakeKey("b.py", "f")].definition

\* The request arrives.
DefineBegin(c) ==
    /\ calls[c].pc = "idle"
    /\ \E kind \in DefineKinds : \E definition \in Texts :
        calls' = [calls EXCEPT ![c] = [NoDefine EXCEPT !.pc = "wait", !.kind = kind,
                                                       !.text = definition]]
    /\ UNCHANGED <<ft, st, res>>
    /\ UNCHANGED defineFrame

\* file_tree.files.get_mut(file) / symbol_table.symbols.get_mut(&key).
DefineGetMut(c) ==
    /\ calls[c].pc = "wait"
    /\ GuardFree(c)
    /\ calls' = [calls EXCEPT ![c].pc = "check",
                             ![c].raced = \E d \in Callers \ {c} :
                                              calls[d].pc \in {"wait", "check", "set"}]
    /\ UNCHANGED <<ft, st, res>>
    /\ UNCHANGED defineFrame

\* if entry.definition.is_some() { return Err(..) }
DefineCheck(c) ==
    /\ calls[c].pc = "check"
    /\ IF StoredDefinition(calls[c].kind) # None
       THEN /\ calls' = [calls EXCEPT ![c].pc = "done", ![c].result = "Err"]
            /\ res' = Called(IF calls[c].kind = "file" THEN "define_file" ELSE "define_symbol",
                             <<c, calls[c].text>>, "Err")
       ELSE /\ calls' = [calls EXCEPT ![c].pc = "set"]
            /\ UNCHANGED res
    /\ UNCHANGED <<ft, st>>
    /\ UNCHANGED defineFrame

\* entry.definition = Some(definition.to_string()); Ok(())
DefineSet(c) ==
    /\ calls[c].pc = "set"
    /\ IF calls[c].kind = "file"
       THEN /\ ft' = MapPut(ft, "b.py", [ft["b.py"] EXCEPT !.definition = Some(calls[c].text)])
            /\ UNCHANGED st
       ELSE /\ st' = SetSymbolDefinition(st, MakeKey("b.py", "f"), calls[c].text)
            /\ UNCHANGED ft
    /\ calls' = [calls EXCEPT ![c].pc = "done", ![c].result = "Ok"]
    /\ res' = Called(IF calls[c].kind = "file" THEN "define_file" ELSE "define_symbol",
                     <<c, calls[c].text>>, "Ok")
    /\ UNCHANGED defineFrame

DefineNext ==
    \E c \in Callers :
        \/ DefineBegin(c)
        \/ DefineGetMut(c)
        \/ DefineCheck(c)
        \/ DefineSet(c)

SpecDefine == DefineInit /\ [][DefineNext]_vars

(***************************************************************************)
(* SpecCache: the same project, saved to the cache while the server runs   *)
(* and loaded from it into empty tables when the server starts again       *)
(***************************************************************************)
MaxSaves == 1

\* The paths edited in this specification; x.rs stays as it is.
CachePaths == StorePaths \ {"x.rs"}

\* The server is not running: no watcher, no tables.
Stopped == Thread("stopped")

\* The directory when the project is indexed: a.py and b.py.
CacheDisk0 ==
    [p \in StorePaths |-> IF p \in {"a.py", "b.py"} THEN File(1, 1, {"f"}, TRUE) ELSE Absent]

\* What can lie at .coderlm/index.bin when the server starts: nothing, a
\* file cut short, the cache of another format version, or a cache saved
\* while an insert had reached by_name and by_file but not the primary store.
CacheBlobs0 ==
    {NoFile,
     OnFile(<<CACHE_VERSION>>),
     OnFile(Serialize(IndexCache(CACHE_VERSION + 1, Indexed(CacheDisk0).tree,
                                 Indexed(CacheDisk0).table))),
     OnFile(SaveBytes(Index(Indexed(CacheDisk0).tree,
                            InsertByFile(InsertByName(Indexed(CacheDisk0).table,
                                                      Symbol("a.py", "g")),
                                         Symbol("a.py", "g")))))}

CacheInit ==
    /\ disk = CacheDisk0
    /\ ft = Indexed(disk).tree
    /\ st = Indexed(disk).table
    /\ events = {}
    /\ edits = 0
    /\ w = Idle
    /\ blob \in CacheBlobs0
    /\ stats = NoStats
    /\ saved = NoSave
    /\ res = NoCall
    /\ StoreRest

CacheEdit == EditIn(CachePaths)

\* save_index, run to its end.
CacheSave ==
    /\ w.pc = "idle"
    /\ saved.n < MaxSaves
    /\ blob' = OnFile(SaveBytes(Index(ft, st)))
    /\ saved' = [on |-> TRUE, n |-> saved.n + 1, tree |-> ft, disk |-> disk,
                 synced |-> events = {}]
    /\ res' = Did("save_index", "")
    /\ UNCHANGED <<ft, st, disk, events, edits, w, stats>>
    /\ UNCHANGED storeFrame

\* The server stops: the watcher and the tables are gone.
CacheShutdown ==
    /\ w.pc = "idle"
    /\ w' = Stopped
    /\ ft' = EmptyMap
    /\ st' = NewTable
    /\ events' = {}
    /\ res' = Did("shutdown", "")
    /\ UNCHANGED <<disk, edits, blob, stats, saved>>
    /\ UNCHANGED storeFrame

\* The server starts: load_index into the new, empty tables, then the
\* watcher.
CacheStartup ==
    LET r == LoadIndex(blob, disk, Index(ft, st)) IN
    /\ w.pc = "stopped"
    /\ w' = Idle
    /\ ft' = r.tree
    /\ st' = r.table
    /\ stats' = [kind |-> r.kind, cached |-> r.cached, changed |-> r.changed, new |-> r.new,
                 deleted |-> r.deleted, files_to_extract |-> r.files_to_extract]
    /\ res' = Did("load_index", "")
    /\ UNCHANGED <<disk, events, edits, blob, saved>>
    /\ UNCHANGED storeFrame

CacheNext ==
    \/ CacheEdit
    \/ StoreWatch
    \/ StoreAnnotate
    \/ CacheSave
    \/ CacheShutdown
    \/ CacheStartup

SpecCache == CacheInit /\ [][CacheNext]_vars

(***************************************************************************)
(* SpecSave: save_index one file-system call at a time, in a process that  *)
(* can die between any two of them                                         *)
(***************************************************************************)
\* The paths edited while a save is under way.
SavePaths == {"a.py", "c.py"}

\* The save_index call: its position, the serialized snapshot it writes and
\* the cache file as it was when the call began.
SaveCall(pc, bytes, prev) == [pc |-> pc, bytes |-> bytes, prev |-> prev]

SaveIdle == SaveCall("idle", <<>>, NoFile)

saveFrame ==
    <<e, projects, sessions, max_projects, now, ties, nextId, s1, orphaned, annotations>>

\* The project is indexed; an earlier run may have left a cache file.
SaveInit ==
    /\ disk = CacheDisk0
    /\ ft = Indexed(disk).tree
    /\ st = Indexed(disk).table
    /\ events = {}
    /\ edits = 0
    /\ w = Idle
    /\ e = Done
    /\ blob \in {NoFile, OnFile(SaveBytes(Indexed(CacheDisk0)))}
    /\ stats = NoStats
    /\ saved = NoSave
    /\ res = NoCall
    /\ projects = EmptyMap
    /\ sessions = EmptyMap
    /\ max_projects = 0
    /\ now = 0
    /\ ties = 0
    /\ nextId = 0
    /\ s1 = [on |-> FALSE, n |-> 0]
    /\ orphaned = {}
    /\ calls = [c \in {"save"} |-> SaveIdle]
    /\ annotations = NoFile

SaveEdit == EditIn(SavePaths)

\* save_index up to bincode::serialize: the tables are snapshotted and the
\* snapshot serialized in memory.
SaveBegin ==
    /\ calls["save"].pc = "idle"
    /\ w.pc = "idle"
    /\ saved.n < MaxSaves
    /\ calls' = [calls EXCEPT !["save"] = SaveCall("create", SaveBytes(Index(ft, st)), blob)]
    /\ saved' = [saved EXCEPT !.n = saved.n + 1]
    /\ UNCHANGED <<ft, st, disk, events, edits, w, blob, stats, res>>
    /\ UNCHANGED saveFrame

\* std::fs::write opens index.bin with create and truncate: the file exists
\* and is empty.
SaveCreate ==
    /\ calls["save"].pc = "create"
    /\ blob' = OnFile(<<>>)
    /\ calls' = [calls EXCEPT !["save"].pc = "write"]
    /\ UNCHANGED <<ft, st, disk, events, edits, w, stats, saved, res>>
    /\ UNCHANGED saveFrame

\* write_all: one write call appends some of the bytes still to write;
\* save_index returns after the last one.
SaveWrite ==
    /\ calls["save"].pc = "write"
    /\ \E n \in (Len(blob.bytes) + 1) .. Len(calls["save"].bytes) :
        /\ blob' = OnFile(SubSeq(calls["save"].bytes, 1, n))
        /\ IF n = Len(calls["save"].bytes)
           THEN calls' = [calls EXCEPT !["save"] = SaveIdle] /\ res' = Did("save_index", "")
           ELSE UNCHANGED <<calls, res>>
    /\ UNCHANGED <<ft, st, disk, events, edits, w, stats, saved>>
    /\ UNCHANGED saveFrame

\* The process dies inside std::fs::write: its tables and its watcher are
\* gone, the file is what the calls made so far left.
SaveCrash ==
    /\ calls["save"].pc \in {"create", "write"}
    /\ calls' = [calls EXCEPT !["save"].pc = "crashed"]
    /\ w' = Stopped
    /\ ft' = EmptyMap
    /\ st' = NewTable
    /\ events' = {}
    /\ res' = Did("crash", "")
    /\ UNCHANGED <<disk, edits, blob, stats, saved>>
    /\ UNCHANGED saveFrame

SaveNext ==
    \/ SaveEdit
    \/ StoreWatch
    \/ SaveBegin
    \/ SaveCreate
    \/ SaveWrite
    \/ SaveCrash

SpecSave == SaveInit /\ [][SaveNext]_vars

(***************************************************************************)
(* SpecContent: the read-only calls of the API on an indexed project, one  *)
(* at a time; what each call reads from the directory is drawn with the    *)
(* call                                                                    *)
(***************************************************************************)
MaxLines == 3

Min(a, b) == IF a < b THEN a ELSE b

\* source.lines() of a file of n lines: line i holds the text i.
LinesOf(n) == [i \in 1..n |-> i]

\* peek: both bounds are clamped to the line count, then lines[start..end]
\* is taken, which panics when the clamped start is past the clamped end.
Peek(tree, file, lines, start, end) ==
    IF file \notin DOMAIN tree THEN Result("Err", "not found in index")
    ELSE LET total_lines == Len(lines)
             from == Min(start, total_lines)
             to == Min(end, total_lines)
         IN  IF from > to THEN Result("Panic", "slice index starts past its end")
             ELSE Result("Ok", [file |-> file,
                                start_line |-> from + 1,
                                end_line |-> to,
                                total_lines |-> total_lines,
                                content |-> [i \in 1..(to - from) |-> <<from + i, lines[from + i]>>]])

MaxBytes == 6
MaxChunk == 3

RECURSIVE ChunkLoopNoBreak(_, _, _, _, _, _)
\* The loop without its break: it goes on until start reaches the end.
ChunkLoopNoBreak(total_bytes, size, step, start, index, chunks) ==
    IF ~(start < total_bytes) THEN chunks
    ELSE ChunkLoopNoBreak(total_bytes, size, step, start + step, index + 1,
                          Append(chunks, [index |-> index, start |-> start,
                                          end |-> Min(start + size, total_bytes)]))

RECURSIVE ChunkLoop(_, _, _, _, _, _)
\* The while loop of chunk_indices, entered with `start` and `index` and the
\* chunks pushed so far. start + size stays below twice the file length once
\* start is above 0, so the usize sum does not wrap.
ChunkLoop(total_bytes, size, step, start, index, chunks) ==
    IF ~(start < total_bytes) THEN chunks
    ELSE LET end == Min(start + size, total_bytes)
             pushed == Append(chunks, [index |-> index, start |-> start, end |-> end])
         IN  IF end >= total_bytes THEN pushed
             ELSE ChunkLoop(total_bytes, size, step, start + step, index + 1, pushed)

\* chunk_indices on a file of total_bytes bytes.
ChunkIndices(tree, file, total_bytes, size, overlap) ==
    IF size = 0 THEN Result("Err", "Chunk size must be > 0")
    ELSE IF overlap >= size THEN Result("Err", "Overlap must be < chunk size")
    ELSE IF file \notin DOMAIN tree THEN Result("Err", "not found in index")
    ELSE Result("Ok", [file |-> file,
                       total_bytes |-> total_bytes,
                       chunk_size |-> size,
                       overlap |-> overlap,
                       chunks |-> ChunkLoop(total_bytes, size, size - overlap, 0, 0, <<>>)])

MaxLimit == 2
MaxCallSites == 2

\* An iteration of a DashMap: its keys, each once, in some order.
Orders(keys) ==
    {o \in [1..Cardinality(keys) -> keys] : \A i \in DOMAIN o : \A j \in DOMAIN o : o[i] = o[j] => i = j}

RECURSIVE PushUpTo(_, _, _)
\* The loop the three searches share: each item found is pushed, and the
\* loop stops once the length of the results has reached the limit.
PushUpTo(items, limit, results) ==
    IF items = <<>> THEN results
    ELSE LET pushed == Append(results, Head(items))
         IN  IF Len(pushed) >= limit THEN pushed
             ELSE PushUpTo(Tail(items), limit, pushed)

\* SymbolTable::search, with symbols.iter() going through the keys in `order`
\* (names and queries are lower case here, so to_lowercase changes nothing).
SearchLimit(t, order, query, limit) ==
    PushUpTo(SelectSeq(order, LAMBDA k : Contains(t.symbols[k].name, query)), limit, <<>>)

RECURSIVE CallersIn(_, _)
\* What find_callers_ast or find_callers_regex finds, file after file: sites[p]
\* calls of the symbol in file p.
CallersIn(order, sites) ==
    IF order = <<>> THEN <<>>
    ELSE [i \in 1..sites[Head(order)] |-> [file |-> Head(order), line |-> i]]
             \o CallersIn(Tail(order), sites)

\* find_callers, with file_tree.files.iter() going through the paths in `order`.
FindCallers(order, table, sites, symbol_name, file, limit) ==
    IF MakeKey(file, symbol_name) \notin DOMAIN table.symbols
    THEN Result("Err", "Symbol not found")
    ELSE Result("Ok", PushUpTo(CallersIn(order, sites), limit, <<>>))

\* find_tests, with symbols.iter() going through the keys in `order`; `tests`
\* are the test symbols whose body contains the name.
FindTests(order, table, tests, symbol_name, file, limit) ==
    IF MakeKey(file, symbol_name) \notin DOMAIN table.symbols
    THEN Result("Err", "Symbol not found")
    ELSE Result("Ok", PushUpTo(SelectSeq(order, LAMBDA k : k \in tests), limit, <<>>))

Returned(op, arg, result) ==
    [op |-> op, arg |-> arg, kind |-> result.kind, id |-> 0, value |-> result.value]

contentFrame ==
    <<st, ft, disk, events, edits, w, e, projects, sessions, max_projects, now,
      ties, nextId, s1, orphaned, calls, blob, stats, saved, annotations>>

ContentInit == AnnotInit

ApiPeek ==
    \E file \in AnnotFiles : \E n \in 0..MaxLines :
    \E start \in 0..(MaxLines + 1) : \E end \in 0..(MaxLines + 1) :
        /\ res' = Returned("peek", <<file, n, start, end>>,
                           Peek(ft, file, LinesOf(n), start, end))
        /\ UNCHANGED contentFrame

ApiChunkIndices ==
    \E file \in AnnotFiles : \E total_bytes \in 0..MaxBytes :
    \E size \in 0..MaxChunk : \E overlap \in 0..MaxChunk :
        /\ res' = Returned("chunk_indices", <<file, total_bytes, size, overlap>>,
                           ChunkIndices(ft, file, total_bytes, size, overlap))
        /\ UNCHANGED contentFrame

ApiSearchSymbols ==
    \E q \in {"f", "o", ""} : \E limit \in 0..MaxLimit : \E order \in Orders(DOMAIN st.symbols) :
        /\ res' = Returned("search", [q |-> q, limit |-> limit],
                           Result("Ok", SearchLimit(st, order, q, limit)))
        /\ UNCHANGED contentFrame

ApiFindCallers ==
    \E file \in AnnotFiles : \E symbol \in AnnotSymbols : \E limit \in 0..MaxLimit :
    \E order \in Orders(DOMAIN ft) : \E sites \in [DOMAIN ft -> 0..MaxCallSites] :
        /\ res' = Returned("find_callers", [symbol |-> symbol, file |-> file, limit |-> limit],
                           FindCallers(order, st, sites, symbol, file, limit))
        /\ UNCHANGED contentFrame

ApiFindTests ==
    \E file \in AnnotFiles : \E symbol \in AnnotSymbols : \E limit \in 0..MaxLimit :
    \E order \in Orders(DOMAIN st.symbols) : \E tests \in SUBSET DOMAIN st.symbols :
        /\ res' = Returned("find_tests", [symbol |-> symbol, file |-> file, limit |-> limit],
                           FindTests(order, st, tests, symbol, file, limit))
        /\ UNCHANGED contentFrame

ContentNext ==
    \/ ApiPeek
    \/ ApiChunkIndices
    \/ ApiSearchSymbols
    \/ ApiFindCallers
    \/ ApiFindTests

SpecContent == ContentInit /\ [][ContentNext]_vars

(***************************************************************************)
(* SpecGrep: grep called on an indexed project, one call at a time, with   *)
(* either scope and any max_matches; the sources do not change             *)
(***************************************************************************)
MaxGrepLines == 2

\* max_matches goes up to the number of lines there are to match.
MaxMatches == MaxGrepLines + 1

GrepPaths == {"a.rs", "x.rs"}

\* A line of a source file is given by where the pattern occurs in it, from
\* left to right: in code, in a string literal or in a comment. The line of
\* scenario S4 is <<"string", "comment">>.
GrepLines ==
    {<<>>, <<"code">>, <<"string", "comment">>, <<"comment", "code">>, <<"code", "comment">>}

Sources == UNION {[1..n -> GrepLines] : n \in 0..MaxGrepLines}

SourceFile(lines) ==
    [exists |-> TRUE, size |-> 1, modified |-> 1, names |-> {}, readable |-> TRUE,
     lines |-> lines]

\* Language::has_tree_sitter_support
LanguageHasTreeSitterSupport(language) ==
    language \in {"rust", "python", "typescript", "javascript", "go"}

\* compute_non_code_ranges: the comment and string nodes of the source, given
\* here by the occurrences of the pattern that lie in one of them.
ComputeNonCodeRanges(lines, language) ==
    IF ~LanguageHasTreeSitterSupport(language) THEN {}
    ELSE UNION {{<<i, k>> : k \in {n \in DOMAIN lines[i] : lines[i][n] \in {"string", "comment"}}} :
                i \in DOMAIN lines}

\* The exclusion applied under scope = all instead of scope = code.
SkipsLineSwapped(line, i, excluded_ranges, scope) ==
    \/ line = <<>>
    \/ scope = "all" /\ line[1] \in {"string", "comment"}

\* Whether the loop of grep_with_scope passes over line i: the pattern does
\* not match it, or the scope is code and the first match of the line,
\* re.find(line), starts in an excluded range.
SkipsLine(line, i, excluded_ranges, scope) ==
    \/ line = <<>>
    \/ scope = "code" /\ excluded_ranges # {} /\ <<i, 1>> \in excluded_ranges

RECURSIVE GrepFile(_, _, _, _, _, _, _)
\* The loop over the lines of one file, from line i on; acc holds `matches`
\* and `total`. A match is kept as (file, line): its text and context lines
\* are the lines around it and decide nothing.
GrepFile(rel_path, lines, excluded_ranges, scope, max_matches, i, acc) ==
    IF i > Len(lines) THEN acc
    ELSE GrepFile(rel_path, lines, excluded_ranges, scope, max_matches, i + 1,
            IF SkipsLine(lines[i], i, excluded_ranges, scope) THEN acc
            ELSE [total |-> acc.total + 1,
                  matches |-> IF Len(acc.matches) < max_matches
                              THEN Append(acc.matches, [file |-> rel_path, line |-> i])
                              ELSE acc.matches])

\* paths.sort_by: the paths of the File Tree in byte order.
SortedPaths(paths) == SelectSeq(<<"a.rs", "x.rs">>, LAMBDA p : p \in paths)

RECURSIVE GrepPathsFrom(_, _, _, _, _, _)
\* The loop over the sorted paths; a file that cannot be read is passed over.
GrepPathsFrom(paths, tree, d, scope, max_matches, acc) ==
    IF paths = <<>> THEN acc
    ELSE LET rel_path == Head(paths)
             language == tree[rel_path].language
             source == d[rel_path]
         IN  GrepPathsFrom(Tail(paths), tree, d, scope, max_matches,
                IF ~(source.exists /\ source.readable) THEN acc
                ELSE GrepFile(rel_path, source.lines,
                              IF scope = "code"
                              THEN ComputeNonCodeRanges(source.lines, language) ELSE {},
                              scope, max_matches, 1, acc))

\* grep_with_scope; "(" stands for a pattern Regex::new rejects.
GrepWithScope(tree, d, pattern, max_matches, scope) ==
    IF pattern = "(" THEN Result("Err", "Invalid regex")
    ELSE LET got == GrepPathsFrom(SortedPaths(DOMAIN tree), tree, d, scope, max_matches,
                                  [total |-> 0, matches |-> <<>>])
         IN  Result("Ok", [pattern |-> pattern,
                           matches |-> got.matches,
                           total_matches |-> got.total,
                           truncated |-> got.total > max_matches])

GrepInit ==
    /\ \E a \in {<<>>, <<<<"comment", "code">>>>} : \E x \in Sources :
          disk = [p \in GrepPaths |-> SourceFile(IF p = "a.rs" THEN a ELSE x)]
    /\ ft = Indexed(disk).tree
    /\ st = Indexed(disk).table
    /\ events = {}
    /\ edits = 0
    /\ w = Idle
    /\ blob = NoFile
    /\ stats = NoStats
    /\ saved = NoSave
    /\ res = NoCall
    /\ StoreRest

\* grep_handler: a scope that is neither "all" nor "code" counts as all.
ApiGrep ==
    \E pattern \in {"TODO", "("} : \E max_matches \in 0..MaxMatches :
    \E scope \in {"all", "code", "none"} :
        /\ res' = Returned("grep", [pattern |-> pattern, max_matches |-> max_matches,
                                    scope |-> scope],
                           GrepWithScope(ft, disk, pattern, max_matches,
                                         IF scope = "code" THEN "code" ELSE "all"))
        /\ UNCHANGED contentFrame

GrepNext == ApiGrep

SpecGrep == GrepInit /\ [][GrepNext]_vars

\* The step is load_index called with empty tables.
Loads == w.pc = "stopped" /\ w'.pc = "idle"

\* The File Records of the cache file, and the fresh walk of the directory.
CachedEntries == Deserialize(blob.bytes).cache.file_entries

FreshEntries == ScanFiles(disk)

\* The classes of section 4.5: a fresh path with a cached record of equal
\* size and mtime, one with a cached record that differs, one without a
\* cached record, and a cached path that is not fresh.
ClassCached ==
    {p \in DOMAIN FreshEntries \cap DOMAIN CachedEntries :
        /\ CachedEntries[p].size = FreshEntries[p].size
        /\ CachedEntries[p].modified = FreshEntries[p].modified}

ClassChanged == (DOMAIN FreshEntries \cap DOMAIN CachedEntries) \ ClassCached

ClassNew == DOMAIN FreshEntries \ DOMAIN CachedEntries

ClassDeleted == DOMAIN CachedEntries \ DOMAIN FreshEntries

StatsOk(cached, changed, new, deleted, files_to_extract) ==
    [kind |-> "ok", cached |-> cached, changed |-> changed, new |-> new,
     deleted |-> deleted, files_to_extract |-> files_to_extract]

\* C13: load_index into empty tables after a save_index, the directory
\* being as it was at the save (and the watcher having handled every event
\* before the save), gives back the saved File Tree record for record and
\* reports every path cached, none changed, new or deleted, nothing to
\* extract.
C13_SaveLoadRoundTrip ==
    [][Loads /\ saved.on /\ saved.synced /\ disk = saved.disk
        => /\ ft' = saved.tree
           /\ stats' = StatsOk(Cardinality(DOMAIN saved.tree), 0, 0, 0, {})]_vars

\* Scenario S3 has been run: a project with a.py and b.py was saved, then
\* a.py was deleted, c.py added and b.py touched, then the cache was loaded;
\* nothing has been edited since the load.
S3Done ==
    /\ res.op = "load_index"
    /\ events = {}
    /\ saved.on
    /\ saved.disk = CacheDisk0
    /\ DOMAIN saved.tree = {"a.py", "b.py"}
    /\ edits = 3
    /\ ~disk["a.py"].exists
    /\ disk["b.py"] = File(1, 2, {"f"}, TRUE)
    /\ disk["c.py"].exists
    /\ ~disk[".h.py"].exists

\* C14: load_index counts every fresh path once, as cached, changed or new
\* by the rule of section 4.5, counts the cached paths that are not fresh
\* as deleted, and lists exactly the changed and new paths for extraction;
\* after S3 the stats are 0 cached, 1 changed, 1 new, 1 deleted and
\* {b.py, c.py} to extract.
C14_LoadClassifiesEveryPathOnce ==
    /\ [][Loads /\ stats'.kind = "ok"
            => /\ stats' = StatsOk(Cardinality(ClassCached), Cardinality(ClassChanged),
                                   Cardinality(ClassNew), Cardinality(ClassDeleted),
                                   ClassChanged \cup ClassNew)
               /\ stats'.cached + stats'.changed + stats'.new
                    = Cardinality(DOMAIN FreshEntries)]_vars
    /\ [](S3Done => stats = StatsOk(0, 1, 1, 1, {"b.py", "c.py"}))

\* S3 has been run and the load succeeded, leaving b.py and c.py to extract.
C14_Witness ==
    /\ S3Done
    /\ stats.kind = "ok"
    /\ stats.files_to_extract = {"b.py", "c.py"}
    /\ DOMAIN ft = {"b.py", "c.py"}

\* C15: after load_index into empty tables no symbol of a changed or
\* deleted file is in the primary store, and every key of the rebuilt
\* by_name and by_file is a key of the primary store.
C15_LoadPrunesStaleSymbols ==
    [][Loads /\ stats'.kind = "ok"
        => /\ \A k \in DOMAIN st'.symbols :
                st'.symbols[k].file \notin ClassChanged \cup ClassDeleted
           /\ I2(st')]_vars

\* A load from a cache saved in the middle of an insert of a.py::g (the key
\* in by_name and by_file, no primary record), with b.py touched since: the
\* table holds a.py::f and nothing else.
C15_Witness ==
    /\ res.op = "load_index"
    /\ ~saved.on
    /\ stats = StatsOk(1, 1, 0, 0, {"b.py"})
    /\ "g" \in DOMAIN Deserialize(blob.bytes).cache.symbols_by_name
    /\ DOMAIN st.symbols = {MakeKey("a.py", "f")}
    /\ DOMAIN st.by_name = {"f"}
    /\ st.by_file = MapPut(EmptyMap, "a.py", {MakeKey("a.py", "f")})

\* C16 as stated: after load_index every path that is both in the cache and
\* in the fresh walk carries the definition and the marks of its cached
\* File Record, whether it was classified cached or changed.
C16_LoadKeepsAnnotationsOfEveryPath ==
    [][Loads /\ stats'.kind = "ok"
        => \A p \in ClassCached \cup ClassChanged :
            /\ ft'[p].definition = CachedEntries[p].definition
            /\ ft'[p].marks = CachedEntries[p].marks]_vars

\* C16 as amended: after load_index every path classified cached carries
\* its cached File Record, definition, marks and symbols_extracted
\* included; a path classified changed carries the fresh record, without
\* definition and marks.
C16_LoadKeepsAnnotationsOfCachedPaths ==
    [][Loads /\ stats'.kind = "ok"
        => /\ \A p \in ClassCached : ft'[p] = CachedEntries[p]
           /\ \A p \in ClassChanged :
                ft'[p] = FileEntryNew(p, disk[p].size, disk[p].modified)]_vars

\* b.py was annotated, saved and loaded back unchanged: it carries its
\* definition and its mark.
C16_Witness ==
    /\ res.op = "load_index"
    /\ stats.kind = "ok"
    /\ saved.on
    /\ "b.py" \in DOMAIN ft
    /\ disk["b.py"] = saved.disk["b.py"]
    /\ ft["b.py"].definition = Some("d")
    /\ ft["b.py"].marks = <<"Test">>

\* C17: when the cache file is missing, does not deserialize or carries a
\* version other than 1, load_index returns an error and leaves the File
\* Tree and the Symbol Table as they were.
C17_BadCacheLeavesTablesAlone ==
    [][(Loads /\ (\/ ~blob.exists
                  \/ ~Deserialize(blob.bytes).ok
                  \/ Deserialize(blob.bytes).cache.version # 1))
        => (stats'.kind = "err" /\ ft' = ft /\ st' = st)]_vars

\* A load from a cache of version 2 has just failed; the tables are empty.
C17_Witness ==
    /\ res.op = "load_index"
    /\ stats.kind = "err"
    /\ blob.exists
    /\ Deserialize(blob.bytes).ok
    /\ Deserialize(blob.bytes).cache.version = 2
    /\ DOMAIN Deserialize(blob.bytes).cache.file_entries # {}
    /\ ft = EmptyMap
    /\ st = NewTable

\* C18: when save_index has been interrupted, .coderlm/index.bin is absent,
\* or is the complete cache file of before the call, or is the complete new
\* snapshot.
C18_InterruptedSaveLeavesNoPartialBlob ==
    calls["save"].pc = "crashed"
        => \/ ~blob.exists
           \/ blob = calls["save"].prev
           \/ blob.bytes = calls["save"].bytes

\* The step is the watcher handling the terminal event of p, a file that
\* exists (every path of SpecStore is of a profiled language, within the
\* size limit and not ignored).
ChangeHandled(p) == p \in events /\ p \notin events' /\ disk[p].exists

\* The symbol names the files of SpecStore declare.
StoreNames == {"f", "foo", "bar"}

\* The symbols of p in the three maps of t are exactly those named `names`.
SymbolsExactly(t, p, names) ==
    /\ {k \in DOMAIN t.symbols : t.symbols[k].file = p} = {MakeKey(p, n) : n \in names}
    /\ IF names = {} THEN p \notin DOMAIN t.by_file
       ELSE p \in DOMAIN t.by_file /\ t.by_file[p] = {MakeKey(p, n) : n \in names}
    /\ \A n \in DOMAIN t.by_name :
        \A q \in StoreNames : MakeKey(p, q) \in t.by_name[n] => q = n /\ q \in names

\* The File Tree record of p carries the size and mtime of the file, with
\* symbols_extracted as given.
RecordOf(tree, p, content, flag) ==
    /\ p \in DOMAIN tree
    /\ tree[p].size = content.size
    /\ tree[p].modified = content.modified
    /\ tree[p].symbols_extracted = flag

\* Scenario S2 has been run: fn foo in x.rs was replaced by fn bar and the
\* watcher has handled the event; nothing else was edited.
S2Done ==
    /\ res = Did("handle_file_change", "x.rs")
    /\ edits = 1
    /\ events = {}
    /\ disk["x.rs"] = File(1, 2, {"bar"}, TRUE)

\* C19 as stated: after the watcher handles a change event for an existing
\* file p, the File Tree record of p has the new size and mtime and
\* symbols_extracted = true, and the symbols of p in the primary store,
\* by_file and by_name are exactly those of the current content; after S2
\* search("foo") is empty, search("bar") has one hit and by_file["x.rs"]
\* one element.
C19_ChangeEventReindexesFile ==
    /\ [][\A p \in StorePaths :
            ChangeHandled(p)
                => /\ RecordOf(ft', p, disk[p], TRUE)
                   /\ SymbolsExactly(st', p, disk[p].names)]_vars
    /\ [](S2Done => /\ Search(st, "foo") = {}
                    /\ Search(st, "bar") = {MakeKey("x.rs", "bar")}
                    /\ Cardinality(st.by_file["x.rs"]) = 1)

\* C19 as amended: the same when the content of p can be read as text; when
\* it cannot, the record has the new size and mtime with symbols_extracted
\* = false and p has no symbol left.
C19_ChangeEventReindexesReadableFile ==
    /\ [][\A p \in StorePaths :
            ChangeHandled(p)
                => IF disk[p].readable
                   THEN /\ RecordOf(ft', p, disk[p], TRUE)
                        /\ SymbolsExactly(st', p, disk[p].names)
                   ELSE /\ RecordOf(ft', p, disk[p], FALSE)
                        /\ SymbolsExactly(st', p, {})]_vars
    /\ [](S2Done => /\ Search(st, "foo") = {}
                    /\ Search(st, "bar") = {MakeKey("x.rs", "bar")}
                    /\ Cardinality(st.by_file["x.rs"]) = 1)

\* S2 has been run: x.rs has the one symbol bar and its record is flagged.
C19_Witness ==
    /\ S2Done
    /\ RecordOf(ft, "x.rs", disk["x.rs"], TRUE)
    /\ DOMAIN st.by_name = {"bar", "f"}
    /\ st.by_file["x.rs"] = {MakeKey("x.rs", "bar")}

\* The step ends the watcher's handling of a terminal event for a path that
\* was gone from the disk when the event was taken.
DeleteHandled == w.kind = "delete" /\ w.pc # "idle" /\ w'.pc = "idle"

\* No symbol of p is in the primary store, in by_file or in by_name.
NoSymbolOf(t, p) ==
    /\ \A k \in DOMAIN t.symbols : t.symbols[k].file # p
    /\ p \in DOMAIN t.by_file => t.by_file[p] = {}
    /\ \A n \in DOMAIN t.by_name : \A q \in Names : MakeKey(p, q) \notin t.by_name[n]

\* C20: when the watcher has handled a terminal event for a path p that no
\* longer exists, p is not in the File Tree and no symbol of p is left in
\* the primary store, by_file or by_name, whether or not p had a File Tree
\* record before.
C20_DeleteEventLeavesNothing ==
    [][DeleteHandled => /\ w.path \notin DOMAIN ft'
                        /\ NoSymbolOf(st', w.path)]_vars

SymbolDefinition(t, key) == t.symbols[key].definition

\* C22 as stated: redefine_file and redefine_symbol return success for every
\* argument, whatever the File Tree and the Symbol Table hold.
C22_RedefineNeverRejects ==
    [][res'.op \in {"redefine_file", "redefine_symbol"} => res'.kind = "Ok"]_vars

\* C22 as amended: redefine_file on a file of the File Tree and
\* redefine_symbol on a symbol of the Symbol Table return success and set
\* the definition to the given text, whether or not there was one; for a
\* file or symbol that is not indexed they return an error and change
\* nothing.
C22_RedefineRejectsOnlyMissing ==
    [][/\ res'.op = "redefine_file"
            => IF res'.arg[1] \in DOMAIN ft
               THEN /\ res'.kind = "Ok"
                    /\ ft' = [ft EXCEPT ![res'.arg[1]].definition = Some(res'.arg[2])]
                    /\ st' = st
               ELSE res'.kind = "Err" /\ ft' = ft /\ st' = st
       /\ res'.op = "redefine_symbol"
            => IF res'.arg[1] \in DOMAIN st.symbols
               THEN /\ res'.kind = "Ok"
                    /\ SymbolDefinition(st', res'.arg[1]) = Some(res'.arg[2])
                    /\ DOMAIN st'.symbols = DOMAIN st.symbols
                    /\ ft' = ft
               ELSE res'.kind = "Err" /\ ft' = ft /\ st' = st]_vars

\* redefine_file has just set the definition of b.py to "e"; b.py::f has
\* the definition "d".
C22_Witness ==
    /\ res = Called("redefine_file", <<"b.py", "e">>, "Ok")
    /\ ft["b.py"].definition = Some("e")
    /\ SymbolDefinition(st, "b.py::f") = Some("d")

\* C23: define_file and define_symbol on an entity that has a definition
\* return an error and change nothing; on an indexed entity without
\* definition they set it to the given text; redefine on an indexed entity
\* replaces the definition by the new text.
C23_DefineOnceRedefineReplaces ==
    [][/\ res'.op = "define_file" /\ res'.arg[1] \in DOMAIN ft
            => IF ft[res'.arg[1]].definition # None
               THEN res'.kind = "Err" /\ ft' = ft /\ st' = st /\ annotations' = annotations
               ELSE /\ res'.kind = "Ok"
                    /\ ft' = [ft EXCEPT ![res'.arg[1]].definition = Some(res'.arg[2])]
                    /\ st' = st
       /\ res'.op = "define_symbol" /\ res'.arg[1] \in DOMAIN st.symbols
            => IF SymbolDefinition(st, res'.arg[1]) # None
               THEN res'.kind = "Err" /\ ft' = ft /\ st' = st /\ annotations' = annotations
               ELSE /\ res'.kind = "Ok"
                    /\ SymbolDefinition(st', res'.arg[1]) = Some(res'.arg[2])
                    /\ ft' = ft
       /\ res'.op = "redefine_file" /\ res'.arg[1] \in DOMAIN ft
            => ft'[res'.arg[1]].definition = Some(res'.arg[2])
       /\ res'.op = "redefine_symbol" /\ res'.arg[1] \in DOMAIN st.symbols
            => SymbolDefinition(st', res'.arg[1]) = Some(res'.arg[2])]_vars

\* define_file with "e" on b.py, defined as "d", has just been rejected; the
\* definition of b.py::f has been replaced by "e".
C23_Witness ==
    /\ res = Called("define_file", <<"b.py", "e">>, "Err")
    /\ ft["b.py"].definition = Some("d")
    /\ SymbolDefinition(st, "b.py::f") = Some("e")

\* C24: load_annotations after save_annotations, on the tables as they were
\* at the save or as a restart rebuilt them from the same directory, leaves
\* every file's definition and marks and every symbol's definition as they
\* were at the save.
C24_AnnotationsRoundTrip ==
    [][(/\ res'.op = "load_annotations"
        /\ saved.on
        /\ ft \in {saved.tree, Indexed(disk).tree}
        /\ st \in {saved.table, Indexed(disk).table})
        => (ft' = saved.tree /\ st' = saved.table)]_vars

\* The annotations saved were a definition and two marks on b.py and a
\* definition on b.py::f; they have just been loaded.
C24_Witness ==
    /\ res.op = "load_annotations"
    /\ saved.on
    /\ ft = saved.tree
    /\ st = saved.table
    /\ ft["b.py"].definition = Some("d")
    /\ ft["b.py"].marks = <<"Documentation", "Test">>
    /\ SymbolDefinition(st, "b.py::f") = Some("e")
    /\ annotations.bytes[2]["b.py"] = <<"documentation", "test">>

\* C25: peek on a file of the File Tree returns Ok for every start and end.
C25_PeekNeverFails ==
    (res.op = "peek" /\ res.arg[1] \in DOMAIN ft) => res.kind = "Ok"

\* C26: for a file of L bytes in the File Tree, chunk_indices with size 0 or
\* overlap >= size returns Err; otherwise it returns chunks numbered from 0,
\* chunk i starting at i * (size - overlap), none longer than size, together
\* covering exactly the bytes 0 .. L-1, the last one ending at L and no
\* other one ending there.
C26_ChunksCoverTheFile ==
    (res.op = "chunk_indices" /\ res.arg[1] \in DOMAIN ft) =>
        LET L == res.arg[2]
            s == res.arg[3]
            o == res.arg[4]
        IN  IF s = 0 \/ o >= s THEN res.kind = "Err"
            ELSE /\ res.kind = "Ok"
                 /\ LET c == res.value.chunks
                    IN  /\ \A i \in 1..Len(c) :
                              /\ c[i].index = i - 1
                              /\ c[i].start = (i - 1) * (s - o)
                              /\ c[i].end - c[i].start <= s
                              /\ c[i].end = L <=> i = Len(c)
                        /\ {b \in 0..MaxBytes : \E i \in 1..Len(c) : c[i].start <= b /\ b < c[i].end}
                               = 0..(L - 1)
                        /\ L > 0 => Len(c) > 0

\* Six bytes in chunks of three with an overlap of one: [0,3), [2,5), [4,6).
C26_Witness ==
    /\ res.op = "chunk_indices"
    /\ res.arg = <<"b.py", 6, 3, 1>>
    /\ res.kind = "Ok"
    /\ Len(res.value.chunks) = 3
    /\ res.value.chunks[3] = [index |-> 2, start |-> 4, end |-> 6]

\* The (file, line) pairs of a grep response.
MatchSet(response) == {response.matches[i] : i \in DOMAIN response.matches}

\* C27: when grep with scope = code follows grep with scope = all on the same
\* sources with the same pattern, the code call counts no more matches than
\* the all call when max_matches is the same, and every (file, line) it
\* reports is one the all call reported, whenever the all call reported all
\* it counted.
C27_CodeScopeIsSubsetOfAll ==
    [][(/\ res.op = "grep" /\ res.kind = "Ok" /\ res.arg.scope = "all"
        /\ res'.op = "grep" /\ res'.kind = "Ok" /\ res'.arg.scope = "code")
        => /\ res'.arg.max_matches = res.arg.max_matches
                => res'.value.total_matches <= res.value.total_matches
           /\ ~res.value.truncated => MatchSet(res'.value) \subseteq MatchSet(res.value)]_vars

\* x.rs has the pattern in the code of line 1 and first in a comment on line
\* 2, where scope = all counts both lines: grep with scope = code has counted
\* and reported line 1 only.
C27_Witness ==
    /\ disk["a.rs"].lines = <<>>
    /\ disk["x.rs"].lines = <<<<"code">>, <<"comment", "code">>>>
    /\ res.op = "grep" /\ res.kind = "Ok" /\ res.arg.scope = "code"
    /\ res.arg.max_matches = 2
    /\ res.value.total_matches = 1
    /\ MatchSet(res.value) = {[file |-> "x.rs", line |-> 1]}

\* Scenario S4: the only line of the project holds the pattern twice, in a
\* string literal and then in a comment.
S4Project ==
    /\ disk["a.rs"].lines = <<>>
    /\ disk["x.rs"].lines = <<<<"string", "comment">>>>

\* C28: on the project of scenario S4, grep with scope = all counts 2
\* matches and grep with scope = code counts 0.
C28_S4TwoMatchesThenNone ==
    (S4Project /\ res.op = "grep" /\ res.kind = "Ok") =>
        /\ res.arg.scope = "all" => res.value.total_matches = 2
        /\ res.arg.scope = "code" => res.value.total_matches = 0

\* C29: search, find_callers and find_tests return at most `limit` results,
\* for every limit from 0 on.
C29_ResultsWithinLimit ==
    (res.op \in {"search", "find_callers", "find_tests"} /\ res.kind = "Ok")
        => Len(res.value) <= res.arg.limit

\* C30: the watcher handling a change event of a path that has a File Record
\* leaves the record's path, language, definition and marks as they were.
C30_ChangeEventKeepsAnnotations ==
    [][\A p \in StorePaths :
          (ChangeHandled(p) /\ p \in DOMAIN ft)
              => /\ p \in DOMAIN ft'
                 /\ ft'[p].rel_path = ft[p].rel_path
                 /\ ft'[p].language = ft[p].language
                 /\ ft'[p].definition = ft[p].definition
                 /\ ft'[p].marks = ft[p].marks]_vars

\* C31: inserting a symbol leaves the record of every other (file, name)
\* pair as it was, remove_file(f) removes no record of another file, and I1
\* and I2 hold after every call, for paths and names that may contain "::".
C31_DistinctPairsDistinctKeys ==
    /\ [][\A key \in DOMAIN st.symbols :
            LET sym == st.symbols[key]
            IN  /\ (res'.op = "insert" /\ res'.arg # <<sym.file, sym.name>>)
                    => (key \in DOMAIN st'.symbols /\ st'.symbols[key] = sym)
                /\ (res'.op = "remove_file" /\ res'.arg # <<sym.file>>)
                    => key \in DOMAIN st'.symbols]_vars
    /\ [](I1(st) /\ I2(st))

\* C32: grep with scope = code, when its list is not cut short, reports
\* every line that has an occurrence of the pattern in code, whatever lies
\* before that occurrence on the line.
C32_CodeScopeKeepsCodeMatches ==
    (res.op = "grep" /\ res.kind = "Ok" /\ res.arg.scope = "code" /\ ~res.value.truncated)
        => \A p \in GrepPaths : \A i \in DOMAIN disk[p].lines :
              (\E k \in DOMAIN disk[p].lines[i] : disk[p].lines[i][k] = "code")
                  => [file |-> p, line |-> i] \in MatchSet(res.value)

\* The symbols the primary store holds for a file, by name.
NamesOf(t, p) == {t.symbols[k].name : k \in {q \in DOMAIN t.symbols : t.symbols[q].file = p}}

\* C33: the extraction spawned for a new project comes to its end, and with
\* no watcher event handled meanwhile it then has flagged exactly the File
\* Records of profiled files it could read, and the Symbol Table holds
\* exactly the symbols of those files, consistently indexed.
C33_ExtractionCompletes ==
    /\ <>(e.pc = "done")
    /\ [](e.pc = "done" =>
            /\ \A p \in DOMAIN ft :
                  ft[p].symbols_extracted = (HasTreeSitterSupport(p) /\ disk[p].exists)
            /\ \A p \in Files :
                  NamesOf(st, p) = IF p \in DOMAIN ft /\ HasTreeSitterSupport(p) /\ disk[p].exists
                                   THEN disk[p].names ELSE {}
            /\ I1(st) /\ I2(st))

\* The extraction is over: a.rs gave two symbols and is flagged, b.rs went
\* after the scan and is not flagged, c.txt has no profile and is not flagged.
C33_Witness ==
    /\ e.pc = "done"
    /\ DOMAIN ft = Files
    /\ ~disk["b.rs"].exists
    /\ NamesOf(st, "a.rs") = {"f", "g"}
    /\ ft["a.rs"].symbols_extracted
    /\ ~ft["b.rs"].symbols_extracted
    /\ ~ft["c.txt"].symbols_extracted

\* C34: mark_file on a file of the File Tree with a string that names no
\* mark returns Err and leaves the File Tree as it was; with a string that
\* names a mark it returns Ok, leaves the File Tree as it was when the
\* record holds the mark, and otherwise appends that mark to the record's
\* marks and changes nothing else.
C34_MarkFileIdempotent ==
    [][\A file \in AnnotFiles \cap DOMAIN ft : \A mark_str \in MarkStrs :
          (res'.op = "mark_file" /\ res'.arg = <<file, mark_str>>)
              => IF FileMarkFromStr(mark_str) = None
                 THEN res'.kind = "Err" /\ ft' = ft
                 ELSE LET mark == FileMarkFromStr(mark_str)[1]
                      IN  /\ res'.kind = "Ok"
                          /\ IF \E i \in DOMAIN ft[file].marks : ft[file].marks[i] = mark
                             THEN ft' = ft
                             ELSE ft' = [ft EXCEPT ![file].marks = Append(@, mark)]]_vars

\* b.py was marked test and then docs; mark_file(b.py, "tests") has just
\* returned Ok and the marks are as they were.
C34_Witness ==
    /\ res = Called("mark_file", <<"b.py", "tests">>, "Ok")
    /\ ft["b.py"].marks = <<"Test", "Documentation">>

\* C35: once the whole-tree extraction and the watcher have both finished
\* and no event is pending, the primary store holds for every profiled file
\* on disk exactly the symbols its content declares.
C35_NoStaleSymbolAfterRace ==
    Quiescent =>
        \A p \in Files :
            (disk[p].exists /\ p \in DOMAIN ft /\ HasTreeSitterSupport(p))
                => NamesOf(st, p) = disk[p].names

\* C36: once two get_or_create_project calls for the same path have both
\* returned and the registry maps the path, each caller holds the Project
\* the registry maps the path to.
C36_CallersHoldTheInstalledProject ==
    (/\ AllReturned
     /\ calls["h1"].held # 0 /\ calls["h2"].held # 0
     /\ calls["h1"].root = calls["h2"].root
     /\ calls["h1"].root \in DOMAIN projects)
        => /\ calls["h1"].held = projects[calls["h1"].root].id
           /\ calls["h2"].held = projects[calls["h2"].root].id

\* C37: with the registry calls made one at a time, every session's
\* project_path is a key of the registry, and get_project_for_session on an
\* id of the sessions map returns a Project.
C37_EverySessionHasItsProject ==
    /\ [](\A sid \in DOMAIN sessions : sessions[sid].project_path \in DOMAIN projects)
    /\ [][(res'.op = "get_project_for_session" /\ res'.arg \in DOMAIN sessions)
            => res'.kind = "ok"]_vars

\* A project has been evicted with its sessions, a session of another
\* project is left, and get_project_for_session has just returned its
\* Project.
C37_Witness ==
    /\ orphaned # {}
    /\ res.op = "get_project_for_session"
    /\ res.arg \in DOMAIN sessions
    /\ res.kind = "ok"
    /\ res.id = projects[sessions[res.arg].project_path].id

\* C38: in no interleaving of get_or_create_project (eviction included),
\* touch_project, get_project_for_session, the watcher's handlers, the
\* extraction task and the reads of the two indexes is there a set of
\* threads each stopped at a guard that a thread of the set holds.
C38_NoCyclicWait ==
    \A S \in SUBSET Lockers :
        S # {} => \E c \in S : \A d \in S : ~WaitsFor(c, d)

\* One handler is inside get_project_for_session with both guards, the
\* other is stopped at one of them, and the watcher holds a guard of the
\* symbol table.
C38_Witness ==
    /\ calls["h1"].held = {"sessions", "projects"}
    /\ WaitsFor("h2", "h1")
    /\ calls["watcher"].held \cap {"symbols", "by_name", "by_file"} # {}

\* C39: of two define calls made at once on the same file, or on the same
\* symbol, that had no definition, the two never both succeed; when both
\* have returned exactly one has succeeded and the stored definition is the
\* text that call gave.
C39_ConcurrentDefineOneWins ==
    \A c \in Callers : \A d \in Callers \ {c} :
        calls[c].kind = calls[d].kind =>
            /\ ~(calls[c].result = "Ok" /\ calls[d].result = "Ok")
            /\ (calls[c].pc = "done" /\ calls[d].pc = "done" /\ calls[c].result = "Ok")
                => /\ calls[d].result = "Err"
                   /\ StoredDefinition(calls[c].kind) = Some(calls[c].text)

\* Both handlers asked to define b.py with different texts, h2 reached the
\* map while h1's call was under way; h2's call has succeeded and h1's was
\* rejected.
C39_Witness ==
    /\ calls["h2"].raced
    /\ calls["h1"].kind = "file" /\ calls["h2"].kind = "file"
    /\ calls["h1"].text # calls["h2"].text
    /\ calls["h1"].pc = "done" /\ calls["h1"].result = "Err"
    /\ calls["h2"].pc = "done" /\ calls["h2"].result = "Ok"
    /\ ft["b.py"].definition = Some(calls["h2"].text)

\* C40: once the watcher has handled the terminal event of every file
\* created, written or deleted under the root, the paths of the File Tree
\* are the paths a fresh scan_directory of the directory would emit.
C40_WatcherMatchesWalker ==
    (events = {} /\ w.pc = "idle") => DOMAIN ft = DOMAIN ScanFiles(disk)

====
